---- MODULE Spec2Model ----
(***************************************************************************)
(* puzzle-web: page tree, template dispatch, redirect handlers and the     *)
(* base-url path algebra.                                                  *)
(*                                                                         *)
(* Strings the code slices or scans are sequences of one-character         *)
(* strings; strings it only compares or concatenates as wholes are         *)
(* sequences of tokens.                                                    *)
(***************************************************************************)
EXTENDS Integers, Sequences, FiniteSets, TLC

VARIABLES
    u_path,     \* c.Request.URL.Path of the request being served
    u_level,    \* levelToErase passed to GetBaseUrl
    u_res,      \* what GetBaseUrl returned (or Panic)
    u_pc,       \* "start" before the call, "called" after it
    u_base,     \* base url the current path was rebuilt from (NoBase if none)
    u_hops      \* number of rebuilt requests so far

urlVars == <<u_path, u_level, u_res, u_pc, u_base, u_hops>>

VARIABLES
    t_build,    \* revision of page.go that was built: "part_001" or "web.go"
    t_widgets,  \* the staticWidgets allocated so far (a *staticWidget is an index)
    t_root,     \* Site.root
    t_pages,    \* Page values the startup code holds
    t_phase,    \* "setup", "serving", or "crashed" (startup ended the process)
    t_fail,     \* why startup crashed (NoFail otherwise)
    t_routes,   \* routes registered by LoadInto
    t_loaded,   \* t_widgets as it was when the engine was initialised
    t_op,       \* the last step, when it was an AddSubPage or a request, with its
                \* arguments (NoOp after any other step)
    t_ran,      \* page handlers the last request ran, in order
    t_ret,      \* what the wrapped function of that handler returned
    t_resp,     \* effects of the last request on its response
    t_calls,    \* collaborator calls the wrapped function made, in order
    t_served    \* number of requests served

treeVars == <<t_build, t_widgets, t_root, t_pages, t_phase, t_fail, t_routes, t_loaded,
              t_op, t_ran, t_ret, t_resp, t_calls, t_served>>

VARIABLES
    d_page404,  \* Site.Page404Url
    d_noRoute,  \* target captured by the NoRoute handler (NotBuilt before initEngine)
    d_kind,     \* which handler the last request invoked
    d_in,       \* what the wrapped function of that handler returned
    d_data,     \* the data bag when the wrapped function returned
    d_calls,    \* backend calls the wrapped function made
    d_out       \* effects of the invocation on the response, in order

dispatchVars == <<d_page404, d_noRoute, d_kind, d_in, d_data, d_calls, d_out>>

VARIABLES
    l_call,     \* the last lookup made on the page tree: function, receiver, argument
    l_res       \* what it returned

lookupVars == <<l_call, l_res>>

VARIABLES
    w_state,    \* AddStaticPagesFromFolder: "idle", "walking", "done" or "fatal"
    w_target,   \* the page p the folder is walked into
    w_groupId,  \* the groupId argument
    w_entries,  \* what filepath.WalkDir visits, in its order
    w_next,     \* index of the next entry the callback is called with
    w_start,    \* the widgets when the walk started
    w_dirPage   \* the page made for each directory visited so far

walkVars == <<w_state, w_target, w_groupId, w_entries, w_next, w_start, w_dirPage>>

VARIABLES
    r_mode,     \* "none", "Site.Run" or "Run": the entry point called
    r_sites,    \* the sites passed, each with what its configuration lacks
    r_i,        \* Run's loop: index of the site being handled
    r_pc,       \* the calling goroutine: "init", "go", "wait", "returned", "exited"
    r_engine,   \* per site: its engine is initialized
    r_srv,      \* per site: "none", "spawned", "listening", "failed"
    r_traffic,  \* per site: it has accepted a request
    r_err       \* the error Run returned

runVars == <<r_mode, r_sites, r_i, r_pc, r_engine, r_srv, r_traffic, r_err>>

VARIABLES
    h_handler,  \* the blog or wiki handler that answered the last request
    h_req,      \* that request: parameters, form, what the backend answers
    h_calls,    \* the backend calls the handler made, in order
    h_resp      \* what the handler wrote to the response

widgetVars == <<h_handler, h_req, h_calls, h_resp>>

VARIABLES
    c_fn,       \* the function of the common, admin or blog code called last
    c_in,       \* its arguments
    c_out       \* what it returned

callVars == <<c_fn, c_in, c_out>>

VARIABLES
    s_service,  \* the session service: the info it holds for each session id
    s_nextId,   \* the id its next Generate answers with
    s_req,      \* per request in flight: where manageSession stands, the
                \* cookie, the session id, the SessionWrapper, the info loaded,
                \* the calls made and the response
    s_last      \* the last step a handler made on a SessionWrapper

sessionVars == <<s_service, s_nextId, s_req, s_last>>

VARIABLES
    e_html,     \* FilterExtractHtml: the html, character by character
    e_size,     \* extractSize
    e_prod,     \* where the sendChar goroutine stands
    e_sent,     \* the characters it has handed over
    e_cons,     \* where FilterExtractHtml stands
    e_buffer, e_temp, e_count, e_stack,
    e_out       \* the string returned

extractVars == <<e_html, e_size, e_prod, e_sent, e_cons, e_buffer, e_temp, e_count,
                 e_stack, e_out>>

commonVars == <<callVars, sessionVars, extractVars>>

otherVars == <<lookupVars, walkVars, runVars, widgetVars, commonVars>>

vars == <<urlVars, treeVars, dispatchVars, otherVars>>

(***************************************************************************)
(* Bounds                                                                  *)
(***************************************************************************)
MaxPathLen == 4
MaxLevel == 3
MaxHops == 1
MaxWidgets == 3
MaxSubPages == 2
MaxRequests == 2

(***************************************************************************)
(* Base-URL / path algebra (common/common.go)                              *)
(***************************************************************************)
Slash == "/"
PathChars == {Slash, "a", "b"}
Panic == <<"panic: index out of range">>
NoBase == <<"no base">>

\* request paths of a matched route: non-empty, starting with '/'
SeqsOfLen(S, n) == [1..n -> S]
Paths == UNION {{<<Slash>> \o s : s \in SeqsOfLen(PathChars, n)} : n \in 0..(MaxPathLen - 1)}

GetCurrentUrl(path) ==
    IF path[Len(path)] # Slash THEN path \o <<Slash>> ELSE path

\* a loop that looks at res[i] before it steps back, so that the trailing
\* '/' counts as a level
RECURSIVE GetBaseUrlLoopLookFirst(_, _, _, _)
GetBaseUrlLoopLookFirst(res, i, count, levelToErase) ==
    IF count < levelToErase
    THEN IF i < 1
         THEN Panic
         ELSE GetBaseUrlLoopLookFirst(res, i - 1,
                                      IF res[i] = Slash THEN (count + 1) % 256 ELSE count,
                                      levelToErase)
    ELSE SubSeq(res, 1, i)

\* the loop of GetBaseUrl; i is the 1-based position of Go's res[i],
\* count is a uint8
RECURSIVE GetBaseUrlLoop(_, _, _, _)
GetBaseUrlLoop(res, i, count, levelToErase) ==
    IF count < levelToErase
    THEN IF i - 1 < 1
         THEN Panic
         ELSE GetBaseUrlLoop(res, i - 1,
                             IF res[i - 1] = Slash THEN (count + 1) % 256 ELSE count,
                             levelToErase)
    ELSE SubSeq(res, 1, i)

\* GetBaseUrl without the normalisation done by GetCurrentUrl
GetBaseUrlRawPath(levelToErase, path) ==
    GetBaseUrlLoop(path, Len(path), 0, levelToErase)

GetBaseUrl(levelToErase, path) ==
    LET res == GetCurrentUrl(path)
    IN GetBaseUrlLoop(res, Len(res), 0, levelToErase)

\* strconv.FormatUint(n, 10)
Digit(d) == CASE d = 0 -> "0" [] d = 1 -> "1" [] d = 2 -> "2" [] d = 3 -> "3"
              [] d = 4 -> "4" [] d = 5 -> "5" [] d = 6 -> "6" [] d = 7 -> "7"
              [] d = 8 -> "8" [] d = 9 -> "9"
RECURSIVE FormatUint(_)
FormatUint(n) ==
    IF n < 10 THEN <<Digit(n)>> ELSE FormatUint(n \div 10) \o <<Digit(n % 10)>>

\* postUrlBuilder that forgets the "view/" segment
postUrlBuilderNoView(base, postId) ==
    base \o FormatUint(postId)

postUrlBuilder(base, postId) ==
    base \o <<"v", "i", "e", "w", Slash>> \o FormatUint(postId)

PostIds == {7, 123}

(***************************************************************************)
(* Page tree (page.go: src/unnamed/part_001, older revision in src/web.go) *)
(***************************************************************************)
Empty == <<>>
NilWidget == 0          \* Page.Widget left nil by MakePage / MakeHiddenPage
SettingsWidget == -1    \* the settingsWidget value of AddSettingsPage
\* a positive Widget is a *staticWidget: an index into t_widgets

Names == {"a", "b"}
TemplateExt == ".html"
GroupIds == {1}
PublicGroupId == 0

MakePage(name) == [name |-> name, visible |-> TRUE, Widget |-> NilWidget]

MakeHiddenPage(name) == [name |-> name, visible |-> FALSE, Widget |-> NilWidget]

\* newStaticWidget: the heap with one more staticWidget; tmpl is the
\* variable captured by the localizedTmpl closure of its displayHandler
newStaticWidget(heap, groupId, tmpl) ==
    Append(heap, [subPages |-> <<>>, groupId |-> groupId, tmpl |-> tmpl])

\* MakeStaticPage returns the page; its widget is the one newStaticWidget
\* allocates at Len(heap) + 1
MakeStaticPage(heap, name, groupId, tmpl) ==
    [MakePage(name) EXCEPT !.Widget = Len(heap) + 1]

\* the type assertion p.Widget.(*staticWidget)
IsStaticWidget(w) == w > 0

\* addSubPage putting the new page first
addSubPageInFront(heap, w, page) ==
    [heap EXCEPT ![w].subPages = <<page>> \o @]

addSubPage(heap, w, page) ==
    [heap EXCEPT ![w].subPages = Append(@, page)]

AddSubPage(heap, p, page) ==
    IF IsStaticWidget(p.Widget) THEN addSubPage(heap, p.Widget, page) ELSE heap

NoPage == [name |-> "", visible |-> FALSE, Widget |-> NilWidget]   \* Page{}

RECURSIVE FirstNamed(_, _, _)
FirstNamed(subPages, i, name) ==
    IF i > Len(subPages) THEN [page |-> NoPage, ok |-> FALSE]
    ELSE IF subPages[i].name = name THEN [page |-> subPages[i], ok |-> TRUE]
    ELSE FirstNamed(subPages, i + 1, name)

\* GetSubPage without the test for the empty name
GetSubPageAnyName(heap, p, name) ==
    IF IsStaticWidget(p.Widget) THEN FirstNamed(heap[p.Widget].subPages, 1, name)
    ELSE [page |-> NoPage, ok |-> FALSE]

GetSubPage(heap, p, name) ==
    IF name = "" THEN [page |-> NoPage, ok |-> FALSE]
    ELSE IF IsStaticWidget(p.Widget) THEN FirstNamed(heap[p.Widget].subPages, 1, name)
    ELSE [page |-> NoPage, ok |-> FALSE]

\* a loop that looks the last segment up as well
RECURSIVE extractLoopAll(_, _, _, _)
extractLoopAll(heap, current, splitted, i) ==
    IF i > Len(splitted) THEN current
    ELSE LET sub == GetSubPage(heap, current, splitted[i])
         IN IF ~sub.ok THEN current
            ELSE extractLoopAll(heap, sub.page, splitted, i + 1)

\* the loop of extractSubPageFromPath over splitted[:last]
RECURSIVE extractLoop(_, _, _, _)
extractLoop(heap, current, splitted, i) ==
    IF i >= Len(splitted) THEN current
    ELSE LET sub == GetSubPage(heap, current, splitted[i])
         IN IF ~sub.ok THEN current
            ELSE extractLoop(heap, sub.page, splitted, i + 1)

\* splitted is strings.Split(path, "/"): never empty
extractSubPageFromPath(heap, current, splitted) ==
    [page |-> extractLoop(heap, current, splitted, 1),
     name |-> splitted[Len(splitted)]]

(***************************************************************************)
(* AddStaticPagesFromFolder: the walked folder is the sequence of entries  *)
(* filepath.WalkDir visits, in its (lexical) order.  An entry's innerPath  *)
(* is a token sequence: folderName, then "/" and a name per level, and for *)
(* a file its extension as the last token.                                 *)
(***************************************************************************)
FolderName == "static"
Dir(innerPath) == [innerPath |-> innerPath, isDir |-> TRUE, err |-> FALSE]
File(innerPath) == [innerPath |-> innerPath, isDir |-> FALSE, err |-> FALSE]
Unreadable(innerPath) == [innerPath |-> innerPath, isDir |-> TRUE, err |-> TRUE]

\* a/index.html, a/b.html and index.html
FolderNested ==
    << Dir(<<FolderName>>),
       Dir(<<FolderName, Slash, "a">>),
       File(<<FolderName, Slash, "a", Slash, "b", TemplateExt>>),
       File(<<FolderName, Slash, "a", Slash, "index", TemplateExt>>),
       File(<<FolderName, Slash, "index", TemplateExt>>) >>
\* a directory a and a template a.html side by side
FolderDirAndFile ==
    << Dir(<<FolderName>>),
       Dir(<<FolderName, Slash, "a">>),
       File(<<FolderName, Slash, "a", TemplateExt>>) >>
\* a template and a file that is no template
FolderFlat ==
    << Dir(<<FolderName>>),
       File(<<FolderName, Slash, "b", TemplateExt>>),
       File(<<FolderName, Slash, "c", ".txt">>) >>
\* a directory that cannot be read
FolderUnreadable ==
    << Dir(<<FolderName>>),
       Unreadable(<<FolderName, Slash, "a">>) >>
Folders == {FolderNested, FolderDirAndFile, FolderFlat, FolderUnreadable}

\* strings.Split(path, "/") on a token sequence; a segment is one token, or
\* "" when nothing lies between two separators
RECURSIVE SplitSlash(_, _, _, _)
SplitSlash(path, i, cur, acc) ==
    IF i > Len(path) THEN Append(acc, cur)
    ELSE IF path[i] = Slash THEN SplitSlash(path, i + 1, "", Append(acc, cur))
    ELSE SplitSlash(path, i + 1, path[i], acc)

Split(path) == SplitSlash(path, 1, "", <<>>)

\* a callback that makes a page for an index template as for any other
walkEntryIndexToo(heap, p, groupId, e) ==
    LET innerPath == e.innerPath
        tmpl == IF e.isDir THEN innerPath \o <<Slash, "index", TemplateExt>> ELSE innerPath
        upTo == IF e.isDir THEN Len(innerPath) ELSE Len(innerPath) - 1
    IN IF Len(innerPath) > 2 /\ (e.isDir \/ innerPath[Len(innerPath)] = TemplateExt)
       THEN LET x == extractSubPageFromPath(heap, p, Split(SubSeq(innerPath, 3, upTo)))
            IN AddSubPage(newStaticWidget(heap, groupId, tmpl), x.page,
                          MakeStaticPage(heap, x.name, groupId, tmpl))
       ELSE heap

\* the WalkDir callback for one entry with err == nil
walkEntry(heap, p, groupId, e) ==
    LET innerPath == e.innerPath
        folderSize == 2                    \* len(folderName) + 1, in tokens
        extSize == 1                       \* len(templateExt), in tokens
        slashIndexName == <<Slash, "index", TemplateExt>>
        cut == Len(innerPath) - extSize
    IN IF e.isDir
       THEN IF Len(innerPath) > folderSize
            THEN LET x == extractSubPageFromPath(heap, p,
                              Split(SubSeq(innerPath, folderSize + 1, Len(innerPath))))
                     tmpl == innerPath \o slashIndexName
                 IN AddSubPage(newStaticWidget(heap, groupId, tmpl), x.page,
                               MakeStaticPage(heap, x.name, groupId, tmpl))
            ELSE heap
       ELSE IF SubSeq(innerPath, cut + 1, Len(innerPath)) = <<TemplateExt>>
            THEN LET x == extractSubPageFromPath(heap, p,
                              Split(SubSeq(innerPath, folderSize + 1, cut)))
                 IN IF x.name # "index"
                    THEN AddSubPage(newStaticWidget(heap, groupId, innerPath), x.page,
                                    MakeStaticPage(heap, x.name, groupId, innerPath))
                    ELSE heap
            ELSE heap

\* filepath.WalkDir over the entries; an entry visited with an error stops
\* the walk and the error is fatal
RECURSIVE WalkDir(_, _, _, _, _)
WalkDir(heap, p, groupId, entries, i) ==
    IF i > Len(entries) THEN [heap |-> heap, fatal |-> FALSE]
    ELSE IF entries[i].err THEN [heap |-> heap, fatal |-> TRUE]
    ELSE WalkDir(walkEntry(heap, p, groupId, entries[i]), p, groupId, entries, i + 1)

AddStaticPagesFromFolder(heap, p, groupId, entries) ==
    WalkDir(heap, p, groupId, entries, 1)

(***************************************************************************)
(* Handlers: what one invocation does is the sequence of its effects on    *)
(* the response.                                                           *)
(***************************************************************************)
StatusOK == 200
StatusFound == 302

HTML(code, name, data) ==
    [kind |-> "html", status |-> code, name |-> name, location |-> Empty, data |-> data]
Redirect(code, location) ==
    [kind |-> "redirect", status |-> code, name |-> Empty, location |-> location, data |-> {}]

\* CreateTemplate that renders whenever a template name came back
CreateTemplateRenderFirst(tmpl, redirect, data) ==
    (IF tmpl # Empty THEN <<HTML(StatusOK, tmpl, data)>> ELSE <<>>)
        \o (IF redirect # Empty THEN <<Redirect(StatusFound, redirect)>> ELSE <<>>)

\* the handler CreateTemplate builds, after redirecter returned (tmpl, redirect)
\* having filled data
CreateTemplate(tmpl, redirect, data) ==
    IF redirect = Empty
    THEN <<HTML(StatusOK, tmpl, data)>>
    ELSE <<Redirect(StatusFound, redirect)>>

\* checkTarget without the default
checkTargetAsIs(target) == target

checkTarget(target) ==
    IF target = Empty THEN <<Slash>> ELSE target

\* the handler CreateRedirect builds, after redirecter returned target
CreateRedirect(target) == <<Redirect(StatusFound, checkTarget(target))>>

\* CreateRedirectString: the target the returned closure captures
CreateRedirectString(target) == checkTarget(target)

\* the closure CreateRedirectString returns
RedirectStringHandler(captured) == <<Redirect(StatusFound, captured)>>

\* common.DefaultErrorRedirect: a destination that embeds the error key
DefaultErrorRedirect(key) == <<Slash, "?error=", key>>

\* the data bag handed to the wrapped function: the default data adders
\* have put the requester's id under IdName when there is one
IdName == "Id"
initData(userId) == IF userId = 0 THEN {} ELSE {<<IdName, userId>>}
DataUserId(data) ==
    IF \E kv \in data : kv[1] = IdName
    THEN (CHOOSE kv \in data : kv[1] = IdName)[2]
    ELSE 0

(***************************************************************************)
(* localizedTmpl: the closure of a static widget.  tmpl is the variable    *)
(* the closure captured; the result holds what the closure returned, the   *)
(* collaborator calls it made, in order, and the captured variable after   *)
(* the call.                                                               *)
(***************************************************************************)
NoErr == ""
AuthErrs == {NoErr, "ErrNotAuthorized"}
ActionAccess == "access"
DefaultLang == "en"
AllLang == {"en", "fr"}

AuthQueryCall(userId, groupId) ==
    [fn |-> "AuthQuery", userId |-> userId, groupId |-> groupId, action |-> ActionAccess]
Call(fn) == [fn |-> fn, userId |-> 0, groupId |-> 0, action |-> ""]

\* localizedTmpl that looks at the locale before the authorization answer
localizedTmplLangFirst(groupId, tmpl, data, authErr, lang) ==
    IF lang # DefaultLang
    THEN [ret |-> <<<<lang, Slash>> \o tmpl, Empty>>,
          calls |-> <<Call("GetLang"), Call("GetDefaultLang"),
                      AuthQueryCall(DataUserId(data), groupId)>>,
          tmpl |-> tmpl]
    ELSE IF authErr # NoErr
    THEN [ret |-> <<Empty, DefaultErrorRedirect(authErr)>>,
          calls |-> <<Call("GetLang"), Call("GetDefaultLang"),
                      AuthQueryCall(DataUserId(data), groupId)>>,
          tmpl |-> tmpl]
    ELSE [ret |-> <<tmpl, Empty>>,
          calls |-> <<Call("GetLang"), Call("GetDefaultLang"),
                      AuthQueryCall(DataUserId(data), groupId)>>,
          tmpl |-> tmpl]

\* src/unnamed/part_001: the result is built in a fresh string
localizedTmpl(groupId, tmpl, data, authErr, lang) ==
    IF authErr # NoErr
    THEN [ret |-> <<Empty, DefaultErrorRedirect(authErr)>>,
          calls |-> <<AuthQueryCall(DataUserId(data), groupId)>>,
          tmpl |-> tmpl]
    ELSE IF lang # DefaultLang
    THEN [ret |-> <<<<lang, Slash>> \o tmpl, Empty>>,
          calls |-> <<AuthQueryCall(DataUserId(data), groupId),
                      Call("GetLang"), Call("GetDefaultLang")>>,
          tmpl |-> tmpl]
    ELSE [ret |-> <<tmpl, Empty>>,
          calls |-> <<AuthQueryCall(DataUserId(data), groupId),
                      Call("GetLang"), Call("GetDefaultLang")>>,
          tmpl |-> tmpl]

\* src/web.go: the result is assigned to the captured tmpl
localizedTmplWeb(groupId, tmpl, userId, authErr, lang) ==
    IF authErr # NoErr
    THEN [ret |-> <<Empty, DefaultErrorRedirect(authErr)>>,
          calls |-> <<Call("GetUserId"), AuthQueryCall(userId, groupId)>>,
          tmpl |-> tmpl]
    ELSE IF lang # DefaultLang
    THEN [ret |-> <<<<lang, Slash>> \o tmpl, Empty>>,
          calls |-> <<Call("GetUserId"), AuthQueryCall(userId, groupId), Call("GetLang")>>,
          tmpl |-> <<lang, Slash>> \o tmpl]
    ELSE [ret |-> <<tmpl, Empty>>,
          calls |-> <<Call("GetUserId"), AuthQueryCall(userId, groupId), Call("GetLang")>>,
          tmpl |-> tmpl]

(***************************************************************************)
(* LoadInto: the route table the router is left with.  A route is a method,*)
(* the absolute path the router group builds (token sequence) and the      *)
(* handler registered there.                                               *)
(***************************************************************************)
Handler(w, fn) == [widget |-> w, fn |-> fn]
Route(method, path, handler) == [method |-> method, path |-> path, handler |-> handler]

PathNames(path) == SelectSeq(path, LAMBDA t : t # Slash)

RECURSIVE SlashJoin(_)
SlashJoin(names) ==
    IF names = <<>> THEN <<>> ELSE <<Slash, Head(names)>> \o SlashJoin(Tail(names))

\* the router's joinPaths(absolutePath, relativePath): path.Join, keeping a
\* trailing '/' of relativePath
joinPaths(abs, rel) ==
    LET all == PathNames(abs) \o PathNames(rel)
        final == IF all = <<>> THEN <<Slash>> ELSE SlashJoin(all)
    IN IF rel[Len(rel)] = Slash /\ final[Len(final)] # Slash
       THEN final \o <<Slash>>
       ELSE final

\* router.Group("/" + page.name)
Group(abs, name) ==
    joinPaths(abs, IF name = "" THEN <<Slash>> ELSE <<Slash, name>>)

NoFail == "none"

\* router.GET / router.POST: registering a second handler for a method and
\* path panics
Handle(acc, method, abs, rel, handler) ==
    LET path == joinPaths(abs, rel)
    IN IF acc.fail # NoFail THEN acc
       ELSE IF \E i \in 1..Len(acc.routes) :
                  acc.routes[i].method = method /\ acc.routes[i].path = path
       THEN [acc EXCEPT !.fail = "duplicate route"]
       ELSE [acc EXCEPT !.routes = Append(@, Route(method, path, handler))]

\* settingsWidget.LoadInto
settingsLoadInto(acc, abs) ==
    Handle(Handle(acc, "GET", abs, <<Slash, "edit">>, Handler(SettingsWidget, "editHandler")),
           "POST", abs, <<Slash, "save">>, Handler(SettingsWidget, "saveHandler"))

\* a static widget that registers its own route and forgets its sub pages
staticLoadIntoOwnRouteOnly(heap, w, abs, depth, acc) ==
    IF acc.fail # NoFail THEN acc
    ELSE Handle(acc, "GET", abs, <<Slash>>, Handler(w, "displayHandler"))

\* staticWidget.LoadInto(router) with router's base path abs; depth counts
\* the nested calls, and a call nested deeper than there are widgets is on a
\* cycle of the sub-page relation: the recursion never returns
RECURSIVE staticLoadInto(_, _, _, _, _)
RECURSIVE loadSubPages(_, _, _, _, _, _)
staticLoadInto(heap, w, abs, depth, acc) ==
    IF acc.fail # NoFail THEN acc
    ELSE IF depth > Len(heap) THEN [acc EXCEPT !.fail = "stack overflow"]
    ELSE loadSubPages(heap, heap[w].subPages, 1, abs, depth,
                      Handle(acc, "GET", abs, <<Slash>>, Handler(w, "displayHandler")))

loadSubPages(heap, subPages, i, abs, depth, acc) ==
    IF acc.fail # NoFail \/ i > Len(subPages) THEN acc
    ELSE LET page == subPages[i]
             group == Group(abs, page.name)
             after == IF page.Widget = NilWidget
                      THEN [acc EXCEPT !.fail = "nil Widget"]
                      ELSE IF page.Widget = SettingsWidget
                      THEN settingsLoadInto(acc, group)
                      ELSE staticLoadInto(heap, page.Widget, group, depth + 1, acc)
         IN loadSubPages(heap, subPages, i + 1, abs, depth, after)

\* site.root.Widget.LoadInto(engine)
LoadInto(heap, root) ==
    staticLoadInto(heap, root.Widget, <<Slash>>, 1, [routes |-> <<>>, fail |-> NoFail])

(***************************************************************************)
(* settingsWidget handlers (src/unnamed/part_002)                          *)
(***************************************************************************)
UnknownUserKey == "ErrorUnknownUser"
EditTmpl == <<"settings/edit.html">>
\* common.WriteError: appends the error as a query parameter
WriteError(errMsg) == <<"?error=", errMsg>>

settingsEditHandler(userId, data) ==
    IF userId = 0
    THEN [ret |-> <<Empty, DefaultErrorRedirect(UnknownUserKey)>>, data |-> data]
    ELSE [ret |-> <<EditTmpl, Empty>>, data |-> data \cup {<<"Settings", userId>>}]

settingsSaveHandler(userId, path, updateErr) ==
    IF userId = 0
    THEN DefaultErrorRedirect(UnknownUserKey)
    ELSE GetBaseUrl(1, path) \o <<"edit">>
             \o (IF updateErr # NoErr THEN WriteError(updateErr) ELSE <<>>)

(***************************************************************************)
(* Startup (composition of the page tree) and request serving              *)
(***************************************************************************)
UserIds == {0, 7}
Builds == {"part_001", "web.go"}
NoOp == [op |-> "none", parent |-> NoPage, child |-> NoPage, path |-> Empty,
         lang |-> "", authErr |-> NoErr, userId |-> 0]
Op(name, parent, child) == [NoOp EXCEPT !.op = name, !.parent = parent, !.child = child]
ReqOp(method, path, lang, authErr, userId) ==
    [NoOp EXCEPT !.op = method, !.path = path, !.lang = lang, !.authErr = authErr,
                 !.userId = userId]

RECURSIVE SumLen(_, _)
SumLen(heap, i) == IF i > Len(heap) THEN 0 ELSE Len(heap[i].subPages) + SumLen(heap, i + 1)
TotalSubPages(heap) == SumLen(heap, 1)

\* NewSite: the root page; Page404Url and everything else is left unset
TreeInit ==
    /\ t_build \in Builds
    /\ t_widgets = newStaticWidget(<<>>, PublicGroupId, <<"index", TemplateExt>>)
    /\ t_root = MakeStaticPage(<<>>, "root", PublicGroupId, <<"index", TemplateExt>>)
    /\ t_pages = {}
    /\ t_phase = "setup"
    /\ t_fail = NoFail
    /\ t_routes = <<>>
    /\ t_loaded = <<>>
    /\ t_op = NoOp
    /\ t_ran = <<>>
    /\ t_ret = <<>>
    /\ t_resp = <<>>
    /\ t_calls = <<>>
    /\ t_served = 0

SetupUnchanged ==
    UNCHANGED <<t_build, t_root, t_phase, t_fail, t_routes, t_loaded,
                t_ran, t_ret, t_resp, t_calls, t_served, urlVars, dispatchVars, otherVars>>

\* p := MakeStaticPage(tracer, name, groupId, tmpl)
DoMakeStaticPage ==
    /\ t_phase = "setup"
    /\ Len(t_widgets) < MaxWidgets
    /\ \E name \in Names, groupId \in GroupIds :
         LET tmpl == <<name, TemplateExt>>
             page == MakeStaticPage(t_widgets, name, groupId, tmpl)
         IN /\ t_widgets' = newStaticWidget(t_widgets, groupId, tmpl)
            /\ t_pages' = t_pages \cup {page}
            /\ t_op' = NoOp
    /\ SetupUnchanged

\* parent.AddSubPage(child); the pages at hand are the root, those built by
\* MakeStaticPage, a MakePage whose Widget was left unset, and a page
\* holding a settingsWidget
PagesAtHand ==
    t_pages \cup {t_root, MakePage("a"),
                  [MakeHiddenPage("settings") EXCEPT !.Widget = SettingsWidget]}

DoAddSubPage ==
    /\ t_phase = "setup"
    /\ TotalSubPages(t_widgets) < MaxSubPages
    /\ \E parent \in PagesAtHand, child \in PagesAtHand :
         /\ t_widgets' = AddSubPage(t_widgets, parent, child)
         /\ t_op' = Op("AddSubPage", parent, child)
    /\ UNCHANGED t_pages
    /\ SetupUnchanged

\* site.AddPage(page)
DoSiteAddPage ==
    /\ t_phase = "setup"
    /\ TotalSubPages(t_widgets) < MaxSubPages
    /\ \E page \in PagesAtHand :
         /\ t_widgets' = AddSubPage(t_widgets, t_root, page)
         /\ t_op' = Op("AddSubPage", t_root, page)
    /\ UNCHANGED t_pages
    /\ SetupUnchanged

\* AddSettingsPage(site, ...): MakeHiddenPage("settings"), the settingsWidget
\* put in it, site.AddPage
DoAddSettingsPage ==
    /\ t_phase = "setup"
    /\ TotalSubPages(t_widgets) < MaxSubPages
    /\ LET p == [MakeHiddenPage("settings") EXCEPT !.Widget = SettingsWidget]
       IN /\ t_widgets' = AddSubPage(t_widgets, t_root, p)
          /\ t_op' = Op("AddSubPage", t_root, p)
    /\ UNCHANGED t_pages
    /\ SetupUnchanged

\* p.AddStaticPagesFromFolder(logger, tracer, groupId, folderName, ...)
DoAddStaticPagesFromFolder ==
    /\ t_phase = "setup"
    /\ \E p \in PagesAtHand, groupId \in GroupIds, entries \in Folders :
         LET walked == AddStaticPagesFromFolder(t_widgets, p, groupId, entries)
         IN /\ Len(walked.heap) <= MaxWidgets
            /\ TotalSubPages(walked.heap) <= MaxSubPages
            /\ t_widgets' = walked.heap
            /\ t_phase' = IF walked.fatal THEN "crashed" ELSE "setup"
            /\ t_fail' = IF walked.fatal THEN "walk error" ELSE NoFail
            /\ t_op' = NoOp
    /\ UNCHANGED <<t_build, t_root, t_pages, t_routes, t_loaded,
                   t_ran, t_ret, t_resp, t_calls, t_served, urlVars, dispatchVars, otherVars>>

\* Site.initEngine: site.root.Widget.LoadInto(engine), then NoRoute
DoInitEngine ==
    /\ t_phase = "setup"
    /\ LET loaded == LoadInto(t_widgets, t_root)
       IN /\ t_phase' = IF loaded.fail = NoFail THEN "serving" ELSE "crashed"
          /\ t_fail' = loaded.fail
          /\ t_routes' = loaded.routes
    /\ t_loaded' = t_widgets
    /\ t_pages' = {}          \* the startup code's page values are out of scope
    /\ t_op' = NoOp
    /\ UNCHANGED <<t_build, t_widgets, t_root,
                   t_ran, t_ret, t_resp, t_calls, t_served, urlVars, dispatchVars, otherVars>>

\* every chain of nested pages below a widget: the names along the chain
\* and its last page
RECURSIVE Chains(_, _, _, _, _)
Chains(heap, subPages, i, names, depth) ==
    IF i > Len(subPages) \/ depth > Len(heap) THEN {}
    ELSE LET page == subPages[i]
             chain == Append(names, page.name)
         IN {[names |-> chain, page |-> page]}
            \cup (IF IsStaticWidget(page.Widget)
                  THEN Chains(heap, heap[page.Widget].subPages, 1, chain, depth + 1)
                  ELSE {})
            \cup Chains(heap, subPages, i + 1, names, depth)

PageChains(heap, root) == Chains(heap, heap[root.Widget].subPages, 1, <<>>, 1)

\* "/a/b/c" for the chain a, b, c
ChainPath(names) == IF names = <<>> THEN <<Slash>> ELSE SlashJoin(names)

ToggleSlash(path) ==
    IF path[Len(path)] = Slash THEN SubSeq(path, 1, Len(path) - 1) ELSE path \o <<Slash>>

Matching(routes, method, path) ==
    {i \in 1..Len(routes) : routes[i].method = method /\ routes[i].path = path}

\* the router answering a path that only matches with its trailing '/'
\* added or removed
TrailingSlashRedirect(method, path) ==
    <<Redirect(IF method = "GET" THEN 301 ELSE 307, ToggleSlash(path))>>

RequestPaths ==
    LET registered == {t_routes[i].path : i \in 1..Len(t_routes)}
    IN registered
       \cup {ToggleSlash(q) : q \in registered \ {<<Slash>>}}
       \cup {ChainPath(c.names) : c \in PageChains(t_widgets, t_root)}
       \cup {ChainPath(c.names) \o <<Slash>> : c \in PageChains(t_widgets, t_root)}
       \cup {<<Slash, "zz">>}

ServingUnchanged ==
    UNCHANGED <<t_build, t_root, t_pages, t_phase, t_fail, t_routes, t_loaded, urlVars,
                dispatchVars, otherVars>>

\* a request routed to the displayHandler of static widget w
ServeDisplay(w, op) ==
    LET data == initData(op.userId)
        res == IF t_build = "part_001"
               THEN localizedTmpl(t_widgets[w].groupId, t_widgets[w].tmpl, data,
                                  op.authErr, op.lang)
               ELSE localizedTmplWeb(t_widgets[w].groupId, t_widgets[w].tmpl, op.userId,
                                     op.authErr, op.lang)
    IN /\ t_widgets' = [t_widgets EXCEPT ![w].tmpl = res.tmpl]
       /\ t_ran' = <<Handler(w, "displayHandler")>>
       /\ t_ret' = res.ret
       /\ t_calls' = res.calls
       /\ t_resp' = CreateTemplate(res.ret[1], res.ret[2], data)

\* a request routed to a handler of the settingsWidget; err is what
\* settingsManager.Update answered
ServeSettings(fn, op) ==
    /\ UNCHANGED t_widgets
    /\ t_ran' = <<Handler(SettingsWidget, fn)>>
    /\ t_calls' = <<>>
    /\ IF fn = "editHandler"
       THEN LET res == settingsEditHandler(op.userId, initData(op.userId))
            IN /\ t_ret' = res.ret
               /\ t_resp' = CreateTemplate(res.ret[1], res.ret[2], res.data)
       ELSE LET target == settingsSaveHandler(op.userId, op.path, op.authErr)
            IN /\ t_ret' = <<target>>
               /\ t_resp' = CreateRedirect(target)

\* one GET request served by the engine: the requester (userId, 0 when not
\* logged in), the active locale and the answer of the authorization
\* service are the request's inputs
Request(langs, errs, userIds) ==
    /\ t_phase = "serving"
    /\ \E path \in RequestPaths, lang \in langs, err \in errs, userId \in userIds :
         LET method == "GET"
             op == ReqOp(method, path, lang, err, userId)
             m == Matching(t_routes, method, path)
         IN /\ t_op' = op
            /\ IF m # {}
               THEN LET h == t_routes[CHOOSE i \in m : TRUE].handler
                    IN IF h.widget = SettingsWidget
                       THEN ServeSettings(h.fn, op)
                       ELSE ServeDisplay(h.widget, op)
               ELSE /\ UNCHANGED t_widgets
                    /\ t_ran' = <<>>
                    /\ t_ret' = <<>>
                    /\ t_calls' = <<>>
                    /\ t_resp' = IF path # <<Slash>>
                                    /\ Matching(t_routes, method, ToggleSlash(path)) # {}
                                 THEN TrailingSlashRedirect(method, path)
                                 ELSE RedirectStringHandler(CreateRedirectString(Empty))
    /\ ServingUnchanged

\* a request in the default locale by a logged-in requester who is granted
\* access: it leaves every widget as it is, whatever the number of
\* requests before it
DoRouteRequest ==
    /\ Request({DefaultLang}, {NoErr}, {7})
    /\ UNCHANGED t_served

\* a request with any locale, requester and authorization answer
DoRequest ==
    /\ t_served < MaxRequests
    /\ Request(AllLang, AuthErrs, UserIds)
    /\ t_served' = t_served + 1

TreeNext ==
    \/ DoMakeStaticPage
    \/ DoAddSubPage
    \/ DoSiteAddPage
    \/ DoAddSettingsPage
    \/ DoAddStaticPagesFromFolder
    \/ DoInitEngine
    \/ DoRouteRequest

\* a site composed at startup and already serving: root, a static page a
\* with a static page b below it, and the settings page
ServedHeap ==
    LET h1 == newStaticWidget(<<>>, PublicGroupId, <<"index", TemplateExt>>)
        root == MakeStaticPage(<<>>, "root", PublicGroupId, <<"index", TemplateExt>>)
        a == MakeStaticPage(h1, "a", 1, <<"list">>)
        h2 == newStaticWidget(h1, 1, <<"list">>)
        b == MakeStaticPage(h2, "b", 1, <<"b", TemplateExt>>)
        h3 == newStaticWidget(h2, 1, <<"b", TemplateExt>>)
        h4 == AddSubPage(h3, a, b)
        h5 == AddSubPage(h4, root, a)
    IN AddSubPage(h5, root, [MakeHiddenPage("settings") EXCEPT !.Widget = SettingsWidget])

ServeInit ==
    /\ t_build \in Builds
    /\ t_widgets = ServedHeap
    /\ t_root = MakeStaticPage(<<>>, "root", PublicGroupId, <<"index", TemplateExt>>)
    /\ t_pages = {}
    /\ t_phase = "serving"
    /\ t_fail = NoFail
    /\ t_routes = LoadInto(ServedHeap, t_root).routes
    /\ t_loaded = ServedHeap
    /\ t_op = NoOp
    /\ t_ran = <<>>
    /\ t_ret = <<>>
    /\ t_resp = <<>>
    /\ t_calls = <<>>
    /\ t_served = 0

ServeNext == DoRequest

(***************************************************************************)
(* wiki viewHandler (src/wiki/wiki.go), the function CreateTemplate wraps  *)
(***************************************************************************)
ViewTmpl == <<"wiki/view.html">>
WrongLang == "WrongLangError"
\* locale.CheckLang: the asked language when it is a known one, the default
\* language otherwise
CheckLang(askedLang) == IF askedLang \in AllLang THEN askedLang ELSE DefaultLang

wikiUrlBuilder(base, lang, mode, title) == base \o <<lang>> \o mode \o <<title>>

\* path is the request path /<wiki page>/<lang>/view/<title>; load is what
\* client.LoadContent answered ("err", "nil" for no content, "content"),
\* contentVersion the version of that content, body what GetBody answered
wikiViewHandler(path, askedLang, title, version, load, contentVersion, body) ==
    LET lang == CheckLang(askedLang)
        viewMode == <<Slash, "view", Slash>>
        loadCall == <<[fn |-> "LoadContent", lang |-> lang, title |-> title,
                       version |-> version]>>
    IN IF lang = askedLang
       THEN IF load = "err"
            THEN [ret |-> <<ViewTmpl, DefaultErrorRedirect("LoadContentError")>>,
                  data |-> {}, calls |-> loadCall]
            ELSE IF load = "nil"
            THEN [ret |-> <<ViewTmpl,
                            wikiUrlBuilder(GetBaseUrl(3, path), lang,
                                           IF version = Empty
                                           THEN <<Slash, "edit", Slash>> ELSE viewMode,
                                           title)>>,
                  data |-> {}, calls |-> loadCall]
            ELSE IF body = "err"
            THEN [ret |-> <<ViewTmpl, DefaultErrorRedirect("GetBodyError")>>,
                  data |-> {}, calls |-> loadCall]
            ELSE [ret |-> <<ViewTmpl, Empty>>,
                  data |-> {<<"WikiTitle", title>>,
                            IF version = contentVersion
                            THEN <<"EditLinkName", "edit.link.name">>
                            ELSE <<"WikiVersion", contentVersion>>,
                            <<"ListLinkName", "list.link.name">>,
                            <<"WikiBaseUrl", GetBaseUrl(2, path)>>,
                            <<"WikiContent", "body">>},
                  calls |-> loadCall]
       ELSE [ret |-> <<ViewTmpl,
                       wikiUrlBuilder(GetBaseUrl(3, path), lang, viewMode, title)
                           \o WriteError(WrongLang)>>,
             data |-> {}, calls |-> <<>>]

(***************************************************************************)
(* Handlers built by CreateTemplate, CreateRedirect, CreateRedirectString  *)
(***************************************************************************)
NotBuilt == <<"not built">>
TmplNames == {Empty, <<"tmpl">>}
Targets == {Empty, <<Slash, "error?x">>, <<Slash, "404">>}
DataBags == {{}, {<<"Title", "t">>}}

DispatchInit ==
    /\ d_page404 = Empty          \* NewSite leaves Page404Url unset
    /\ d_noRoute = NotBuilt
    /\ d_kind = "none"
    /\ d_in = <<>>
    /\ d_data = {}
    /\ d_calls = <<>>
    /\ d_out = <<>>

\* site.Page404Url = url, before the site runs
DoSetPage404Url ==
    /\ d_noRoute = NotBuilt
    /\ \E url \in Targets : d_page404' = url
    /\ UNCHANGED <<d_noRoute, d_kind, d_in, d_data, d_calls, d_out, urlVars, treeVars, otherVars>>

\* Site.initEngine: engine.NoRoute(common.CreateRedirectString(site.Page404Url))
DoBuildNoRoute ==
    /\ d_noRoute = NotBuilt
    /\ d_noRoute' = CreateRedirectString(d_page404)
    /\ UNCHANGED <<d_page404, d_kind, d_in, d_data, d_calls, d_out, urlVars, treeVars, otherVars>>

\* a request no route matches
DoNoRoute ==
    /\ d_noRoute # NotBuilt
    /\ d_kind' = "NoRoute"
    /\ d_in' = <<>>
    /\ d_data' = {}
    /\ d_calls' = <<>>
    /\ d_out' = RedirectStringHandler(d_noRoute)
    /\ UNCHANGED <<d_page404, d_noRoute, urlVars, treeVars, otherVars>>

\* a handler built by CreateTemplate around any function: the function
\* filled data and returned (tmpl, redirect)
DoTemplateHandler ==
    /\ \E tmpl \in TmplNames, redirect \in Targets, data \in DataBags :
         /\ d_in' = <<tmpl, redirect>>
         /\ d_data' = data
         /\ d_out' = CreateTemplate(tmpl, redirect, data)
    /\ d_kind' = "CreateTemplate"
    /\ d_calls' = <<>>
    /\ UNCHANGED <<d_page404, d_noRoute, urlVars, treeVars, otherVars>>

\* the wiki viewHandler, built by CreateTemplate
DoWikiView ==
    /\ \E askedLang \in AllLang \cup {"xx"}, version \in {Empty, <<"1">>},
          load \in {"err", "nil", "content"}, contentVersion \in {<<"1">>, <<"2">>},
          body \in {"ok", "err"} :
         LET path == <<Slash, "wiki", Slash, askedLang, Slash, "view", Slash, "Welcome">>
             res == wikiViewHandler(path, askedLang, "Welcome", version, load,
                                    contentVersion, body)
         IN /\ d_in' = res.ret
            /\ d_data' = res.data
            /\ d_calls' = res.calls
            /\ d_out' = CreateTemplate(res.ret[1], res.ret[2], res.data)
    /\ d_kind' = "CreateTemplate"
    /\ UNCHANGED <<d_page404, d_noRoute, urlVars, treeVars, otherVars>>

\* a handler built by CreateRedirect around any function: the function
\* returned target
DoRedirectHandler ==
    /\ \E target \in Targets :
         /\ d_in' = target
         /\ d_out' = CreateRedirect(target)
    /\ d_kind' = "CreateRedirect"
    /\ d_data' = {}
    /\ d_calls' = <<>>
    /\ UNCHANGED <<d_page404, d_noRoute, urlVars, treeVars, otherVars>>

\* the settings saveHandler, built by CreateRedirect
DoSettingsSave ==
    /\ \E userId \in UserIds, updateErr \in {NoErr, "UpdateError"} :
         LET target == settingsSaveHandler(userId, <<Slash, "settings", Slash, "save">>,
                                           updateErr)
         IN /\ d_in' = target
            /\ d_out' = CreateRedirect(target)
            /\ d_calls' = IF userId = 0 THEN <<>> ELSE <<[fn |-> "Update", userId |-> userId]>>
    /\ d_kind' = "CreateRedirect"
    /\ d_data' = {}
    /\ UNCHANGED <<d_page404, d_noRoute, urlVars, treeVars, otherVars>>

DispatchNext ==
    \/ DoSetPage404Url
    \/ DoBuildNoRoute
    \/ DoNoRoute
    \/ DoTemplateHandler
    \/ DoWikiView
    \/ DoRedirectHandler
    \/ DoSettingsSave

(***************************************************************************)
(* Lookups on a composed page tree: GetSubPage, extractSubPageFromPath     *)
(***************************************************************************)
\* a template whose name is the bare extension: its page name is ""
FolderEmptyName ==
    << Dir(<<FolderName>>),
       Dir(<<FolderName, Slash, "a">>),
       File(<<FolderName, Slash, "a", Slash, TemplateExt>>),
       File(<<FolderName, Slash, TemplateExt>>) >>

RootHeap == newStaticWidget(<<>>, PublicGroupId, <<"index", TemplateExt>>)
RootPage == MakeStaticPage(<<>>, "root", PublicGroupId, <<"index", TemplateExt>>)
SettingsPage == [MakeHiddenPage("settings") EXCEPT !.Widget = SettingsWidget]

\* trees a startup can leave: the served site, and the root after a walk of
\* each folder
LookupHeaps ==
    {ServedHeap}
        \cup {AddStaticPagesFromFolder(RootHeap, RootPage, 1, f).heap :
                 f \in Folders \cup {FolderEmptyName}}

\* every page value held in the tree
PagesIn(heap) ==
    UNION {{heap[w].subPages[i] : i \in 1..Len(heap[w].subPages)} : w \in 1..Len(heap)}

Receivers(heap) == PagesIn(heap) \cup {RootPage, MakePage("a"), SettingsPage}

LookupNames == {"", "a", "b", "zz"}
\* paths of one to three segments, "a/b/zz"
LookupPaths ==
    {<<x>> : x \in LookupNames \ {""}}
        \cup {<<x, Slash, y>> : x \in LookupNames \ {""}, y \in LookupNames \ {""}}
        \cup {<<x, Slash, y, Slash, z>> : x \in {"a", "zz"}, y \in {"b", "zz"}, z \in {"b", "a"}}
        \cup {<<>>, <<Slash, "a">>, <<"a", Slash>>, <<"a", Slash, Slash, "b">>}

LookupIdle ==
    /\ l_call = [fn |-> "none", receiver |-> NoPage, name |-> "", path |-> <<>>]
    /\ l_res = [page |-> NoPage, ok |-> FALSE, name |-> ""]


\* the startup code composes the tree, once
DoCompose ==
    /\ l_call.fn = "none"
    /\ t_widgets = RootHeap
    /\ \E heap \in LookupHeaps : t_widgets' = heap
    /\ l_call' = [l_call EXCEPT !.fn = "composed"]
    /\ UNCHANGED <<l_res, t_build, t_root, t_pages, t_phase, t_fail, t_routes, t_loaded,
                   t_op, t_ran, t_ret, t_resp, t_calls, t_served, urlVars, dispatchVars,
                   walkVars, runVars, widgetVars, commonVars>>

\* receiver.GetSubPage(name)
DoGetSubPage ==
    /\ l_call.fn # "none"
    /\ \E p \in Receivers(t_widgets), name \in LookupNames :
         LET r == GetSubPage(t_widgets, p, name)
         IN /\ l_call' = [fn |-> "GetSubPage", receiver |-> p, name |-> name, path |-> <<>>]
            /\ l_res' = [page |-> r.page, ok |-> r.ok, name |-> ""]
    /\ UNCHANGED <<treeVars, urlVars, dispatchVars, walkVars, runVars, widgetVars, commonVars>>

\* receiver.extractSubPageFromPath(path)
DoExtractSubPageFromPath ==
    /\ l_call.fn # "none"
    /\ \E p \in Receivers(t_widgets), path \in LookupPaths :
         LET r == extractSubPageFromPath(t_widgets, p, Split(path))
         IN /\ l_call' = [fn |-> "extractSubPageFromPath", receiver |-> p, name |-> "",
                          path |-> path]
            /\ l_res' = [page |-> r.page, ok |-> TRUE, name |-> r.name]
    /\ UNCHANGED <<treeVars, urlVars, dispatchVars, walkVars, runVars, widgetVars, commonVars>>

LookupNext == DoCompose \/ DoGetSubPage \/ DoExtractSubPageFromPath

(***************************************************************************)
(* AddStaticPagesFromFolder, one call of the WalkDir callback at a time    *)
(***************************************************************************)
\* a directory named like the settings page, with a template in it
FolderSettings ==
    << Dir(<<FolderName>>),
       Dir(<<FolderName, Slash, "settings">>),
       File(<<FolderName, Slash, "settings", Slash, "b", TemplateExt>>) >>

WalkedFolders == Folders \cup {FolderEmptyName, FolderSettings}
WalkGroupIds == {1, 2}
\* the walk starts on the bare root or on the composed site
WalkStartHeaps == {RootHeap, ServedHeap}

WalkIdle ==
    /\ w_state = "idle"
    /\ w_target = NoPage
    /\ w_groupId = 0
    /\ w_entries = <<>>
    /\ w_next = 0
    /\ w_start = <<>>
    /\ w_dirPage = {}


WalkTreeUnchanged ==
    UNCHANGED <<t_build, t_root, t_pages, t_phase, t_fail, t_routes, t_loaded,
                t_op, t_ran, t_ret, t_resp, t_calls, t_served, urlVars, dispatchVars,
                lookupVars, runVars, widgetVars,
                commonVars>>

\* p.AddStaticPagesFromFolder(logger, tracer, groupId, folderName, ...) up to
\* the call of filepath.WalkDir; absErr is the error of filepath.Abs
DoStartWalk ==
    /\ w_state = "idle"
    /\ \E heap \in WalkStartHeaps, groupId \in WalkGroupIds, entries \in WalkedFolders,
          absErr \in BOOLEAN :
         \E p \in {q \in PagesIn(heap) \cup {RootPage} : IsStaticWidget(q.Widget)} :
            /\ t_widgets' = heap
            /\ w_start' = heap
            /\ w_target' = p
            /\ w_groupId' = groupId
            /\ w_entries' = entries
            /\ w_state' = IF absErr THEN "fatal" ELSE "walking"
            /\ w_next' = IF absErr THEN 0 ELSE 1
            /\ w_dirPage' = {[dir |-> <<FolderName>>, page |-> p]}
    /\ WalkTreeUnchanged

\* one call of the callback by filepath.WalkDir; an entry visited with an
\* error ends the walk with that error, which is fatal
DoVisitEntry ==
    /\ w_state = "walking"
    /\ LET e == w_entries[w_next]
           heap == walkEntry(t_widgets, w_target, w_groupId, e)
       IN IF e.err
          THEN /\ w_state' = "fatal"
               /\ UNCHANGED <<t_widgets, w_next, w_dirPage>>
          ELSE /\ t_widgets' = heap
               /\ w_next' = w_next + 1
               /\ w_state' = IF w_next = Len(w_entries) THEN "done" ELSE "walking"
               /\ w_dirPage' =
                     IF e.isDir /\ Len(heap) > Len(t_widgets)
                     THEN w_dirPage \cup
                             {[dir |-> e.innerPath,
                               page |-> MakeStaticPage(t_widgets,
                                                       e.innerPath[Len(e.innerPath)],
                                                       w_groupId, <<>>)]}
                     ELSE w_dirPage
    /\ UNCHANGED <<w_target, w_groupId, w_entries, w_start>>
    /\ WalkTreeUnchanged

WalkNext == DoStartWalk \/ DoVisitEntry

(***************************************************************************)
(* Site.Run and Run(sites...): engines, listeners and the process          *)
(***************************************************************************)
MaxSites == 2
\* what a site's configuration lacks: nothing, or the HTMLRender
SiteConfigs == {"ok", "no HTMLRender"}
NoError == "nil"

EachSite(v) == [i \in 1..MaxSites |-> v]

RunIdle ==
    /\ r_mode = "none"
    /\ r_sites = <<>>
    /\ r_i = 0
    /\ r_pc = "init"
    /\ r_engine = EachSite(FALSE)
    /\ r_srv = EachSite("none")
    /\ r_traffic = EachSite(FALSE)
    /\ r_err = NoError


RunRestUnchanged ==
    UNCHANGED <<treeVars, urlVars, dispatchVars, lookupVars, walkVars, widgetVars,
                commonVars>>

\* main calls site.Run(config) or Run(sites...)
DoCallRun ==
    /\ r_mode = "none"
    /\ \E n \in 1..MaxSites : \E sites \in [1..n -> SiteConfigs] :
         /\ r_sites' = sites
         /\ r_mode' = IF n = 1 THEN "Site.Run" ELSE "Run"
    /\ r_i' = 1
    /\ UNCHANGED <<r_pc, r_engine, r_srv, r_traffic, r_err>>
    /\ RunRestUnchanged

\* Run with a single site
DoCallRunOne ==
    /\ r_mode = "none"
    /\ \E config \in SiteConfigs : r_sites' = <<config>>
    /\ r_mode' = "Run"
    /\ r_i' = 1
    /\ UNCHANGED <<r_pc, r_engine, r_srv, r_traffic, r_err>>
    /\ RunRestUnchanged

\* site.initEngine(config) of the site at hand: fatal without an HTMLRender
DoRunInitEngine ==
    /\ r_mode # "none"
    /\ r_pc = "init"
    /\ r_i <= Len(r_sites)
    /\ IF r_sites[r_i] = "ok"
       THEN /\ r_engine' = [r_engine EXCEPT ![r_i] = TRUE]
            /\ r_pc' = "go"
       ELSE /\ r_pc' = "exited"
            /\ UNCHANGED r_engine
    /\ UNCHANGED <<r_mode, r_sites, r_i, r_srv, r_traffic, r_err>>
    /\ RunRestUnchanged

\* g.Go(func() error { ... server.ListenAndServe() }) in Run, the call of
\* engine.Run(port) in Site.Run: the server of the site at hand is on its
\* way, and Run goes on with the next site
DoGo ==
    /\ r_pc = "go"
    /\ r_srv' = [r_srv EXCEPT ![r_i] = "spawned"]
    /\ r_i' = r_i + 1
    /\ r_pc' = IF r_i = Len(r_sites) THEN "wait" ELSE "init"
    /\ UNCHANGED <<r_mode, r_sites, r_engine, r_traffic, r_err>>
    /\ RunRestUnchanged

\* ListenAndServe binds the port: the site listens, or the bind fails
DoListen ==
    /\ r_pc \notin {"exited", "returned"}
    /\ \E i \in 1..Len(r_sites), bound \in BOOLEAN :
         /\ r_srv[i] = "spawned"
         /\ r_srv' = [r_srv EXCEPT ![i] = IF bound THEN "listening" ELSE "failed"]
         /\ r_err' = IF ~bound /\ r_err = NoError
                     THEN "bind: address already in use" ELSE r_err
    /\ UNCHANGED <<r_mode, r_sites, r_i, r_pc, r_engine, r_traffic>>
    /\ RunRestUnchanged

\* a listening site accepts a request
DoAccept ==
    /\ r_pc \notin {"exited", "returned"}
    /\ \E i \in 1..Len(r_sites) :
         /\ r_srv[i] = "listening"
         /\ ~r_traffic[i]
         /\ r_traffic' = [r_traffic EXCEPT ![i] = TRUE]
    /\ UNCHANGED <<r_mode, r_sites, r_i, r_pc, r_engine, r_srv, r_err>>
    /\ RunRestUnchanged

\* ListenAndServe of a listening site returns an error
DoServerFail ==
    /\ r_pc \notin {"exited", "returned"}
    /\ \E i \in 1..Len(r_sites) :
         /\ r_srv[i] = "listening"
         /\ r_srv' = [r_srv EXCEPT ![i] = "failed"]
         /\ r_err' = IF r_err = NoError THEN "accept failed" ELSE r_err
    /\ UNCHANGED <<r_mode, r_sites, r_i, r_pc, r_engine, r_traffic>>
    /\ RunRestUnchanged

\* g.Wait() (engine.Run in Site.Run) returns once every server has
\* returned, with the first error
DoWaitReturn ==
    /\ r_pc = "wait"
    /\ \A i \in 1..Len(r_sites) : r_srv[i] = "failed"
    /\ r_pc' = "returned"
    /\ UNCHANGED <<r_mode, r_sites, r_i, r_engine, r_srv, r_traffic, r_err>>
    /\ RunRestUnchanged

RunNext ==
    \/ DoCallRun
    \/ DoCallRunOne
    \/ DoRunInitEngine
    \/ DoGo
    \/ DoListen
    \/ DoAccept
    \/ DoServerFail
    \/ DoWaitReturn

(***************************************************************************)
(* Blog widget handlers (src/unnamed/part_000)                             *)
(***************************************************************************)
StatusForbidden == 403
StatusInternalServerError == 500

\* c.AbortWithStatus(code) and c.Data(code, contentType, data)
AbortWithStatus(code) ==
    [kind |-> "status", status |-> code, name |-> Empty, location |-> Empty, data |-> {}]
Data(code) ==
    [kind |-> "data", status |-> code, name |-> Empty, location |-> Empty, data |-> {}]

\* strconv.ParseUint(s, 10, 64) on the characters of s.  A value is kept as
\* a number up to nine digits; the inputs drawn hold no longer valid one.
DecDigits == {"0", "1", "2", "3", "4", "5", "6", "7", "8", "9"}
DigitValue(c) == CHOOSE d \in 0..9 : Digit(d) = c
MaxUint64Digits ==
    <<"1", "8", "4", "4", "6", "7", "4", "4", "0", "7",
      "3", "7", "0", "9", "5", "5", "1", "6", "1", "5">>

RECURSIVE StripZeros(_)
StripZeros(s) ==
    IF s # <<>> /\ Head(s) = "0" THEN StripZeros(Tail(s)) ELSE s

RECURSIVE DigitsGreater(_, _)
DigitsGreater(a, b) ==
    IF a = <<>> THEN FALSE
    ELSE IF Head(a) # Head(b) THEN DigitValue(Head(a)) > DigitValue(Head(b))
    ELSE DigitsGreater(Tail(a), Tail(b))

RECURSIVE DigitsValue(_, _)
DigitsValue(s, acc) ==
    IF s = <<>> THEN acc ELSE DigitsValue(Tail(s), acc * 10 + DigitValue(Head(s)))

ErrSyntax == "invalid syntax"
ErrRange == "value out of range"

\* the digits of an unsigned decimal number, once the characters are known
\* to be there and to be digits
ParseDigits(s) ==
    LET d == StripZeros(s)
    IN IF Len(d) > Len(MaxUint64Digits)
          \/ (Len(d) = Len(MaxUint64Digits) /\ DigitsGreater(d, MaxUint64Digits))
       THEN [value |-> 0, err |-> ErrRange]      \* the value is not looked at
       ELSE [value |-> DigitsValue(d, 0), err |-> NoErr]

\* ParseUint that takes a sign, as ParseInt does
ParseUintSigned(s) ==
    LET t == IF s # <<>> /\ Head(s) \in {"+", "-"} THEN Tail(s) ELSE s
    IN IF t = <<>> \/ \E i \in 1..Len(t) : t[i] \notin DecDigits
       THEN [value |-> 0, err |-> ErrSyntax]
       ELSE ParseDigits(t)

ParseUint(s) ==
    IF s = <<>> \/ \E i \in 1..Len(s) : s[i] \notin DecDigits
    THEN [value |-> 0, err |-> ErrSyntax]
    ELSE ParseDigits(s)

\* common.ErrorTechnicalKey, and the errors the services answer with (an
\* error stands for its Error() text)
ErrorTechnicalKey == "ErrorTechnicalProblem"
ErrNotAuthorized == "ErrNotAuthorized"
BackendErrs == {ErrNotAuthorized, "ErrorUpdate"}
EmptyTitle == "EmptyPostTitle"
EmptyContent == "EmptyPostContent"
EmptyComment == "EmptyComment"

\* what the backend answers during one request: every call succeeds, or the
\* call named at fails with err
NoFailure == [at |-> "none", err |-> NoErr]
Failures(calls) == {NoFailure} \cup {[at |-> call, err |-> e] : call \in calls, e \in BackendErrs}

\* path parameters as the router hands them over (never empty): 7, 07,
\* letters, signs, and 2^64
TwoPow64Digits ==
    <<"1", "8", "4", "4", "6", "7", "4", "4", "0", "7",
      "3", "7", "0", "9", "5", "5", "1", "6", "1", "6">>
IdParams == {<<"7">>, <<"0", "7">>, <<"x">>, <<"-", "7">>, <<"7", "x">>, TwoPow64Digits}
FormTexts == {"", "text"}

NoReq == [postId |-> Empty, commentId |-> Empty, comment |-> "", title |-> "",
          markdown |-> "", fail |-> NoFailure,
          askedLang |-> "", page |-> "", version |-> Empty, content |-> "none"]

BlogCall(fn) == [fn |-> fn]
Tmpl(tmpl, calls) == [tmpl |-> tmpl, redirect |-> Empty, calls |-> calls]
Redir(redirect, calls) == [tmpl |-> Empty, redirect |-> redirect, calls |-> calls]

ListTmpl == <<"blog/list">>
BlogViewTmpl == <<"blog/view">>
CreateTmpl == <<"blog/create">>
PreviewTmpl == <<"blog/preview">>

\* the calls made up to and including the one that fails, all of them when
\* none fails
RECURSIVE UpToFailure(_, _)
UpToFailure(calls, fail) ==
    IF calls = <<>> THEN <<>>
    ELSE IF Head(calls) = fail.at THEN <<BlogCall(Head(calls))>>
    ELSE <<BlogCall(Head(calls))>> \o UpToFailure(Tail(calls), fail)

Failed(calls, fail) == \E i \in 1..Len(calls) : calls[i] = fail.at

blogListHandler(req) ==
    IF req.fail.at = "GetPosts"
    THEN Redir(DefaultErrorRedirect(req.fail.err), <<BlogCall("GetPosts")>>)
    ELSE Tmpl(ListTmpl, <<BlogCall("GetPosts"), BlogCall("CreateRight"),
                          BlogCall("DeleteRight")>>)

blogViewHandler(req) ==
    LET parsed == ParseUint(req.postId)
        services == <<"GetPost", "GetCommentThread">>
    IN IF parsed.err # NoErr
       THEN Redir(DefaultErrorRedirect(ErrorTechnicalKey), <<>>)
       ELSE IF Failed(services, req.fail)
       THEN Redir(DefaultErrorRedirect(req.fail.err), UpToFailure(services, req.fail))
       ELSE Tmpl(BlogViewTmpl, UpToFailure(services, req.fail)
                                   \o <<BlogCall("CreateMessageRight"),
                                        BlogCall("DeleteRight")>>)

\* path is the request path /blog/comment/save/<postId>
blogSaveCommentHandler(req, path) ==
    LET parsed == ParseUint(req.postId)
        target == postUrlBuilder(GetBaseUrl(3, path), parsed.value)
    IN IF parsed.err # NoErr
       THEN Redir(DefaultErrorRedirect(ErrorTechnicalKey), <<>>)
       ELSE IF req.comment = ""
       THEN Redir(target \o WriteError(EmptyComment), <<>>)
       ELSE IF req.fail.at = "GetPost"
       THEN Redir(DefaultErrorRedirect(req.fail.err), <<BlogCall("GetPost")>>)
       ELSE Redir(target \o (IF req.fail.at = "CreateComment"
                             THEN WriteError(req.fail.err) ELSE <<>>),
                  <<BlogCall("GetPost"), BlogCall("CreateComment")>>)

\* path is the request path /blog/comment/delete/<postId>/<commentId>
blogDeleteCommentHandler(req, path) ==
    LET parsed == ParseUint(req.postId)
        parsedComment == ParseUint(req.commentId)
    IN IF parsed.err # NoErr
       THEN Redir(DefaultErrorRedirect(ErrorTechnicalKey), <<>>)
       ELSE IF parsedComment.err # NoErr
       THEN Redir(DefaultErrorRedirect(ErrorTechnicalKey), <<>>)
       ELSE IF req.fail.at = "GetPost"
       THEN Redir(DefaultErrorRedirect(req.fail.err), <<BlogCall("GetPost")>>)
       ELSE Redir(postUrlBuilder(GetBaseUrl(4, path), parsed.value)
                      \o (IF req.fail.at = "DeleteComment"
                          THEN WriteError(req.fail.err) ELSE <<>>),
                  <<BlogCall("GetPost"), BlogCall("DeleteComment")>>)

blogCreateHandler(req) == Tmpl(CreateTmpl, <<>>)

blogPreviewHandler(req) ==
    IF req.title = "" THEN Redir(DefaultErrorRedirect(EmptyTitle), <<>>)
    ELSE IF req.markdown = "" THEN Redir(DefaultErrorRedirect(EmptyContent), <<>>)
    ELSE IF req.fail.at = "Apply"
    THEN Redir(DefaultErrorRedirect(req.fail.err), <<BlogCall("Apply")>>)
    ELSE Tmpl(PreviewTmpl, <<BlogCall("Apply")>>)

\* path is the request path /blog/save; postId is what CreatePost answers
blogSaveHandler(req, path, postId) ==
    LET services == <<"Apply", "CreatePost", "CreateCommentThread">>
    IN IF req.title = "" THEN Redir(DefaultErrorRedirect(EmptyTitle), <<>>)
       ELSE IF req.markdown = "" THEN Redir(DefaultErrorRedirect(EmptyContent), <<>>)
       ELSE IF Failed(services, req.fail)
       THEN Redir(DefaultErrorRedirect(req.fail.err), UpToFailure(services, req.fail))
       ELSE Redir(postUrlBuilder(GetBaseUrl(1, path), postId),
                  UpToFailure(services, req.fail))

\* path is the request path /blog/delete/<postId>
blogDeleteHandler(req, path) ==
    LET parsed == ParseUint(req.postId)
        services == <<"GetPost", "DeletePost", "DeleteCommentThread">>
        base == GetBaseUrl(2, path)
    IN IF parsed.err # NoErr
       THEN Redir(base \o WriteError(ErrorTechnicalKey), <<>>)
       ELSE IF Failed(services, req.fail)
       THEN Redir(base \o WriteError(req.fail.err), UpToFailure(services, req.fail))
       ELSE Redir(base, UpToFailure(services, req.fail))

\* an rssHandler that answers every failure alike
rssHandlerOneStatus(req) ==
    IF req.fail.at = "GetPosts"
    THEN [resp |-> <<AbortWithStatus(StatusInternalServerError)>>,
          calls |-> <<BlogCall("GetPosts")>>]
    ELSE IF req.fail.at = "buildFeed"
    THEN [resp |-> <<AbortWithStatus(StatusInternalServerError)>>,
          calls |-> <<BlogCall("GetPosts")>>]
    ELSE [resp |-> <<Data(StatusOK)>>, calls |-> <<BlogCall("GetPosts")>>]

\* the feed endpoint, a plain gin handler; buildFeed is no backend call
rssHandler(req) ==
    IF req.fail.at = "GetPosts"
    THEN [resp |-> <<AbortWithStatus(IF req.fail.err = ErrNotAuthorized
                                     THEN StatusForbidden
                                     ELSE StatusInternalServerError)>>,
          calls |-> <<BlogCall("GetPosts")>>]
    ELSE IF req.fail.at = "buildFeed"
    THEN [resp |-> <<AbortWithStatus(StatusInternalServerError)>>,
          calls |-> <<BlogCall("GetPosts")>>]
    ELSE [resp |-> <<Data(StatusOK)>>, calls |-> <<BlogCall("GetPosts")>>]

WidgetIdle ==
    /\ h_handler = "none"
    /\ h_req = NoReq
    /\ h_calls = <<>>
    /\ h_resp = <<>>


WidgetRestUnchanged ==
    UNCHANGED <<treeVars, urlVars, dispatchVars, lookupVars, walkVars, runVars,
                commonVars>>

BlogPath(rel) == <<Slash, "blog">> \o rel

\* GET /blog/
DoBlogList ==
    \E fail \in Failures({"GetPosts"}) :
        LET req == [NoReq EXCEPT !.fail = fail]
            res == blogListHandler(req)
           IN /\ h_handler' = "blog/listHandler"
              /\ h_req' = req
              /\ h_calls' = res.calls
              /\ h_resp' = CreateTemplate(res.tmpl, res.redirect, {})
              /\ WidgetRestUnchanged

\* GET /blog/view/:postId
DoBlogView ==
    \E postId \in IdParams, fail \in Failures({"GetPost", "GetCommentThread"}) :
        LET req == [NoReq EXCEPT !.postId = postId, !.fail = fail]
            res == blogViewHandler(req)
           IN /\ h_handler' = "blog/viewHandler"
              /\ h_req' = req
              /\ h_calls' = res.calls
              /\ h_resp' = CreateTemplate(res.tmpl, res.redirect, {})
              /\ WidgetRestUnchanged

\* POST /blog/comment/save/:postId
DoBlogSaveComment ==
    \E postId \in IdParams, comment \in FormTexts,
       fail \in Failures({"GetPost", "CreateComment"}) :
        LET req == [NoReq EXCEPT !.postId = postId, !.comment = comment, !.fail = fail]
            path == BlogPath(<<Slash, "comment", Slash, "save", Slash>> \o postId)
            res == blogSaveCommentHandler(req, path)
           IN /\ h_handler' = "blog/saveCommentHandler"
              /\ h_req' = req
              /\ h_calls' = res.calls
              /\ h_resp' = CreateRedirect(res.redirect)
              /\ WidgetRestUnchanged

\* GET /blog/comment/delete/:postId/:commentId
DoBlogDeleteComment ==
    \E postId \in IdParams, commentId \in IdParams,
       fail \in Failures({"GetPost", "DeleteComment"}) :
        LET req == [NoReq EXCEPT !.postId = postId, !.commentId = commentId,
                                 !.fail = fail]
            path == BlogPath(<<Slash, "comment", Slash, "delete", Slash>> \o postId
                                 \o <<Slash>> \o commentId)
            res == blogDeleteCommentHandler(req, path)
           IN /\ h_handler' = "blog/deleteCommentHandler"
              /\ h_req' = req
              /\ h_calls' = res.calls
              /\ h_resp' = CreateRedirect(res.redirect)
              /\ WidgetRestUnchanged

\* GET /blog/create
DoBlogCreate ==
    LET res == blogCreateHandler(NoReq)
    IN /\ h_handler' = "blog/createHandler"
       /\ h_req' = NoReq
       /\ h_calls' = res.calls
       /\ h_resp' = CreateTemplate(res.tmpl, res.redirect, {})
       /\ WidgetRestUnchanged

\* POST /blog/preview
DoBlogPreview ==
    \E title \in FormTexts, markdown \in FormTexts, fail \in Failures({"Apply"}) :
        LET req == [NoReq EXCEPT !.title = title, !.markdown = markdown, !.fail = fail]
            res == blogPreviewHandler(req)
           IN /\ h_handler' = "blog/previewHandler"
              /\ h_req' = req
              /\ h_calls' = res.calls
              /\ h_resp' = CreateTemplate(res.tmpl, res.redirect, {})
              /\ WidgetRestUnchanged

\* POST /blog/save
DoBlogSave ==
    \E title \in FormTexts, markdown \in FormTexts,
       fail \in Failures({"Apply", "CreatePost", "CreateCommentThread"}) :
        LET req == [NoReq EXCEPT !.title = title, !.markdown = markdown, !.fail = fail]
            res == blogSaveHandler(req, BlogPath(<<Slash, "save">>), 7)
           IN /\ h_handler' = "blog/saveHandler"
              /\ h_req' = req
              /\ h_calls' = res.calls
              /\ h_resp' = CreateRedirect(res.redirect)
              /\ WidgetRestUnchanged

\* GET /blog/delete/:postId
DoBlogDelete ==
    \E postId \in IdParams,
       fail \in Failures({"GetPost", "DeletePost", "DeleteCommentThread"}) :
        LET req == [NoReq EXCEPT !.postId = postId, !.fail = fail]
            res == blogDeleteHandler(req, BlogPath(<<Slash, "delete", Slash>> \o postId))
           IN /\ h_handler' = "blog/deleteHandler"
              /\ h_req' = req
              /\ h_calls' = res.calls
              /\ h_resp' = CreateRedirect(res.redirect)
              /\ WidgetRestUnchanged

\* GET /blog/rss
DoBlogRss ==
    \E fail \in Failures({"GetPosts"})
                   \cup {[at |-> "buildFeed", err |-> "unrecognized feed format"]} :
        LET req == [NoReq EXCEPT !.fail = fail]
            res == rssHandler(req)
        IN /\ h_handler' = "blog/rssHandler"
           /\ h_req' = req
           /\ h_calls' = res.calls
           /\ h_resp' = res.resp
           /\ WidgetRestUnchanged

BlogNext ==
    \/ DoBlogList
    \/ DoBlogView
    \/ DoBlogSaveComment
    \/ DoBlogDeleteComment
    \/ DoBlogCreate
    \/ DoBlogPreview
    \/ DoBlogSave
    \/ DoBlogDelete
    \/ DoBlogRss

(***************************************************************************)
(* Wiki widget handlers (src/wiki/wiki.go); the viewHandler is above       *)
(***************************************************************************)
WikiEditTmpl == <<"wiki/edit.html">>
WikiTitles == {"Welcome", "Home"}
WikiListTmpl == <<"wiki/list.html">>
AskedLangs == AllLang \cup {"xx"}
WikiFailures(call) == Failures({call})

WikiCall(fn, lang, title, version) ==
    [fn |-> fn, lang |-> lang, title |-> title, version |-> version]

\* /<wiki page>/<lang>/<mode>/<title>
WikiPath(askedLang, mode, title) ==
    <<Slash, "wiki", Slash, askedLang, Slash, mode, Slash, title>>

\* an editHandler that goes on when the asked language was not a known one
wikiEditHandlerOnMismatch(req, path) ==
    LET askedLang == req.askedLang
        lang == CheckLang(askedLang)
        calls == <<WikiCall("LoadContent", lang, req.page, Empty)>>
    IN IF lang # askedLang
       THEN IF req.fail.at = "LoadContent"
            THEN [tmpl |-> WikiEditTmpl, redirect |-> DefaultErrorRedirect(req.fail.err),
                  calls |-> calls]
            ELSE [tmpl |-> WikiEditTmpl, redirect |-> Empty, calls |-> calls]
       ELSE [tmpl |-> WikiEditTmpl,
             redirect |-> wikiUrlBuilder(GetBaseUrl(3, path), lang,
                                         <<Slash, "view", Slash>>, req.page)
                              \o WriteError(WrongLang),
             calls |-> <<>>]

wikiEditHandler(req, path) ==
    LET askedLang == req.askedLang
        lang == CheckLang(askedLang)
        calls == <<WikiCall("LoadContent", lang, req.page, Empty)>>
    IN IF lang = askedLang
       THEN IF req.fail.at = "LoadContent"
            THEN [tmpl |-> WikiEditTmpl, redirect |-> DefaultErrorRedirect(req.fail.err),
                  calls |-> calls]
            ELSE [tmpl |-> WikiEditTmpl, redirect |-> Empty, calls |-> calls]
       ELSE [tmpl |-> WikiEditTmpl,
             redirect |-> wikiUrlBuilder(GetBaseUrl(3, path), lang,
                                         <<Slash, "view", Slash>>, req.page)
                              \o WriteError(WrongLang),
             calls |-> <<>>]

wikiSaveHandler(req, path) ==
    LET askedLang == req.askedLang
        lang == CheckLang(askedLang)
        target == wikiUrlBuilder(GetBaseUrl(3, path), lang, <<Slash, "view", Slash>>,
                                 req.page)
    IN IF lang = askedLang
       THEN [tmpl |-> Empty,
             redirect |-> target \o (IF req.fail.at = "StoreContent"
                                     THEN WriteError(req.fail.err) ELSE <<>>),
             calls |-> <<WikiCall("StoreContent", lang, req.page, req.version)>>]
       ELSE [tmpl |-> Empty, redirect |-> target \o WriteError(WrongLang), calls |-> <<>>]

wikiListHandler(req, path) ==
    LET askedLang == req.askedLang
        lang == CheckLang(askedLang)
        target == wikiUrlBuilder(GetBaseUrl(3, path), lang, <<Slash, "list", Slash>>,
                                 req.page)
        calls == <<WikiCall("GetVersions", lang, req.page, Empty)>>
    IN IF lang = askedLang
       THEN IF req.fail.at = "GetVersions"
            THEN [tmpl |-> WikiListTmpl, redirect |-> target \o WriteError(req.fail.err),
                  calls |-> calls]
            ELSE [tmpl |-> WikiListTmpl, redirect |-> Empty, calls |-> calls]
       ELSE [tmpl |-> WikiListTmpl, redirect |-> target \o WriteError(WrongLang),
             calls |-> <<>>]

wikiDeleteHandler(req, path) ==
    LET askedLang == req.askedLang
        lang == CheckLang(askedLang)
        target == wikiUrlBuilder(GetBaseUrl(3, path), lang, <<Slash, "list", Slash>>,
                                 req.page)
    IN IF lang = askedLang
       THEN [tmpl |-> Empty,
             redirect |-> target \o (IF req.fail.at = "DeleteContent"
                                     THEN WriteError(req.fail.err) ELSE <<>>),
             calls |-> <<WikiCall("DeleteContent", lang, req.page, req.version)>>]
       ELSE [tmpl |-> Empty, redirect |-> target \o WriteError(WrongLang), calls |-> <<>>]

\* GET /wiki/:lang/view/:title
DoWikiViewAsked ==
    \E askedLang \in AskedLangs, title \in WikiTitles, version \in {Empty, <<"1">>},
       content \in {"nil", "content"}, fail \in WikiFailures("LoadContent") :
        LET req == [NoReq EXCEPT !.askedLang = askedLang, !.page = title, !.version = version,
                                 !.content = content, !.fail = fail]
            res == wikiViewHandler(WikiPath(askedLang, "view", title), askedLang, title,
                                   version,
                                   IF fail.at = "LoadContent" THEN "err" ELSE content,
                                   <<"1">>, "ok")
        IN /\ h_handler' = "wiki/viewHandler"
           /\ h_req' = req
           /\ h_calls' = res.calls
           /\ h_resp' = CreateTemplate(res.ret[1], res.ret[2], res.data)
           /\ WidgetRestUnchanged

\* GET /wiki/:lang/edit/:title
DoWikiEdit ==
    \E askedLang \in AskedLangs, title \in WikiTitles, content \in {"nil", "content"},
       fail \in WikiFailures("LoadContent") :
        LET req == [NoReq EXCEPT !.askedLang = askedLang, !.page = title, !.content = content,
                                 !.fail = fail]
            res == wikiEditHandler(req, WikiPath(askedLang, "edit", title))
        IN /\ h_handler' = "wiki/editHandler"
           /\ h_req' = req
           /\ h_calls' = res.calls
           /\ h_resp' = CreateTemplate(res.tmpl, res.redirect, {})
           /\ WidgetRestUnchanged

\* POST /wiki/:lang/save/:title
DoWikiSave ==
    \E askedLang \in AskedLangs, title \in WikiTitles, version \in {Empty, <<"1">>},
       fail \in WikiFailures("StoreContent") :
        LET req == [NoReq EXCEPT !.askedLang = askedLang, !.page = title, !.version = version,
                                 !.fail = fail]
            res == wikiSaveHandler(req, WikiPath(askedLang, "save", title))
        IN /\ h_handler' = "wiki/saveHandler"
           /\ h_req' = req
           /\ h_calls' = res.calls
           /\ h_resp' = CreateRedirect(res.redirect)
           /\ WidgetRestUnchanged

\* GET /wiki/:lang/list/:title
DoWikiList ==
    \E askedLang \in AskedLangs, title \in WikiTitles, fail \in WikiFailures("GetVersions") :
        LET req == [NoReq EXCEPT !.askedLang = askedLang, !.page = title, !.fail = fail]
            res == wikiListHandler(req, WikiPath(askedLang, "list", title))
        IN /\ h_handler' = "wiki/listHandler"
           /\ h_req' = req
           /\ h_calls' = res.calls
           /\ h_resp' = CreateTemplate(res.tmpl, res.redirect, {})
           /\ WidgetRestUnchanged

\* GET /wiki/:lang/delete/:title
DoWikiDelete ==
    \E askedLang \in AskedLangs, title \in WikiTitles, version \in {Empty, <<"1">>},
       fail \in WikiFailures("DeleteContent") :
        LET req == [NoReq EXCEPT !.askedLang = askedLang, !.page = title, !.version = version,
                                 !.fail = fail]
            res == wikiDeleteHandler(req, WikiPath(askedLang, "delete", title))
        IN /\ h_handler' = "wiki/deleteHandler"
           /\ h_req' = req
           /\ h_calls' = res.calls
           /\ h_resp' = CreateRedirect(res.redirect)
           /\ WidgetRestUnchanged

WikiNext ==
    \/ DoWikiViewAsked
    \/ DoWikiEdit
    \/ DoWikiSave
    \/ DoWikiList
    \/ DoWikiDelete

(***************************************************************************)
(* Functions called with arguments: displayActions (src/common/common.go)  *)
(***************************************************************************)
MaxActions == 4
RightActions == <<"access", "create", "update", "delete">>
ActionSet == {RightActions[i] : i \in 1..Len(RightActions)}
\* actionToKey; a label stands for its key
ActionKey(action) ==
    CASE action = "access" -> "AccessLabel"
      [] action = "create" -> "CreateLabel"
      [] action = "update" -> "UpdateLabel"
      [] action = "delete" -> "DeleteLabel"

SeqsUpTo(S, n) == UNION {SeqsOfLen(S, k) : k \in 0..n}
Range(seq) == {seq[i] : i \in 1..Len(seq)}

\* make([]string, n): n empty strings
MakeStrings(n) == [i \in 1..n |-> ""]

\* the labels of the actions of actionSet, in the order of RightActions
RECURSIVE AppendLabels(_, _, _)
AppendLabels(res, actionSet, i) ==
    IF i > Len(RightActions) THEN res
    ELSE AppendLabels(IF RightActions[i] \in actionSet
                      THEN Append(res, ActionKey(RightActions[i])) ELSE res,
                      actionSet, i + 1)

displayActions(actions) ==
    LET actionSet == Range(actions)                 \* common.MakeSet(actions)
        res == MakeStrings(Len(actions))            \* make([]string, len(actions))
    IN AppendLabels(res, actionSet, 1)

CallIdle ==
    /\ c_fn = "none"
    /\ c_in = <<>>
    /\ c_out = <<>>

CallRestUnchanged ==
    UNCHANGED <<treeVars, urlVars, dispatchVars, lookupVars, walkVars, runVars, widgetVars,
                sessionVars, extractVars>>

DoDisplayActions ==
    /\ \E actions \in SeqsUpTo(ActionSet, MaxActions) :
         /\ c_in' = actions
         /\ c_out' = displayActions(actions)
    /\ c_fn' = "displayActions"
    /\ CallRestUnchanged

DisplayNext == DoDisplayActions

(***************************************************************************)
(* GetPagination and InitPagination (src/common/common.go).  A uint64 is   *)
(* the sequence of its eight bytes, the lowest first, so that the          *)
(* arithmetic wraps at 2^64 as Go's does                                   *)
(***************************************************************************)
ByteBase == 2 ^ 8
Uint64Bytes == 64 \div 8

RECURSIVE ToBytes(_, _)
ToBytes(n, k) == IF k = 0 THEN <<>> ELSE <<n % ByteBase>> \o ToBytes(n \div ByteBase, k - 1)

\* the uint64 of a small number
U64(n) == ToBytes(n, Uint64Bytes)
MaxUint64 == [i \in 1..Uint64Bytes |-> ByteBase - 1]

RECURSIVE AddFrom(_, _, _, _)
AddFrom(a, b, i, carry) ==
    IF i > Uint64Bytes THEN <<>>
    ELSE LET sum == a[i] + b[i] + carry
         IN <<sum % ByteBase>> \o AddFrom(a, b, i + 1, sum \div ByteBase)

\* a + b on uint64
U64Add(a, b) == AddFrom(a, b, 1, 0)

\* a - b on uint64: a + (2^64 - b)
U64Sub(a, b) ==
    U64Add(U64Add(a, [i \in 1..Uint64Bytes |-> ByteBase - 1 - b[i]]), U64(1))

RECURSIVE ColumnSum(_, _, _, _)
ColumnSum(a, b, k, i) ==
    IF i > k THEN 0 ELSE a[i] * b[k + 1 - i] + ColumnSum(a, b, k, i + 1)

RECURSIVE MulFrom(_, _, _, _)
MulFrom(a, b, k, carry) ==
    IF k > Uint64Bytes THEN <<>>
    ELSE LET sum == ColumnSum(a, b, k, 1) + carry
         IN <<sum % ByteBase>> \o MulFrom(a, b, k + 1, sum \div ByteBase)

\* a * b on uint64
U64Mul(a, b) == MulFrom(a, b, 1, 0)

RECURSIVE LessFrom(_, _, _)
LessFrom(a, b, i) ==
    IF i = 0 THEN FALSE
    ELSE IF a[i] # b[i] THEN a[i] < b[i]
    ELSE LessFrom(a, b, i - 1)

\* a < b on uint64
U64Less(a, b) == LessFrom(a, b, Uint64Bytes)

\* the uint64 written by the digits s after those already read into acc
RECURSIVE DigitsU64(_, _)
DigitsU64(s, acc) ==
    IF s = <<>> THEN acc
    ELSE CHOOSE value \in {DigitsU64(Tail(s), next) :
                              next \in {U64Add(U64Mul(acc, U64(10)),
                                               U64(DigitValue(Head(s))))}} : TRUE

\* strconv.ParseUint(s, 10, 64) with the value it returns beside an error:
\* 0 for a syntax error, the largest uint64 for a range error
ParseUint64(s) ==
    LET d == StripZeros(s)
    IN IF s = <<>> \/ \E i \in 1..Len(s) : s[i] \notin DecDigits
       THEN [value |-> U64(0), err |-> ErrSyntax]
       ELSE IF Len(d) > Len(MaxUint64Digits)
               \/ (Len(d) = Len(MaxUint64Digits) /\ DigitsGreater(d, MaxUint64Digits))
       THEN [value |-> MaxUint64, err |-> ErrRange]
       ELSE [value |-> DigitsU64(d, U64(0)), err |-> NoErr]

TwoPow63Digits ==
    <<"9", "2", "2", "3", "3", "7", "2", "0", "3", "6",
      "8", "5", "4", "7", "7", "5", "8", "0", "8">>

\* what c.Query gives for pageNumber and pageSize ("" when missing)
PageQueries ==
    {<<>>, <<"0">>, <<"1">>, <<"2">>, <<"3">>, <<"x">>, <<"-", "1">>,
     TwoPow63Digits, MaxUint64Digits, TwoPow64Digits}
DefaultPageSizes == {U64(10)}
Totals == {U64(0), U64(15), U64(25)}

GetPagination(defaultPageSize, pageNumberQuery, pageSizeQuery, filter) ==
    LET asked == ParseUint64(pageNumberQuery).value
        size == ParseUint64(pageSizeQuery).value
        pageNumber == IF asked = U64(0) THEN U64(1) ELSE asked
        pageSize == IF size = U64(0) THEN defaultPageSize ELSE size
        start == U64Mul(U64Sub(pageNumber, U64(1)), pageSize)
    IN [pageNumber |-> pageNumber, start |-> start, end |-> U64Add(start, pageSize),
        filter |-> filter]

\* the entries InitPagination adds to data
InitPagination(filter, pageNumber, end, total) ==
    LET keys == {"Filter", "Total"}
                \cup (IF pageNumber # U64(1) THEN {"PreviousPageNumber"} ELSE {})
                \cup (IF U64Less(end, total) THEN {"NextPageNumber"} ELSE {})
    IN [k \in keys |->
           CASE k = "Filter" -> <<filter>>
             [] k = "Total" -> total
             [] k = "PreviousPageNumber" -> U64Sub(pageNumber, U64(1))
             [] k = "NextPageNumber" -> U64Add(pageNumber, U64(1))]

\* a handler reads its page: GetPagination(defaultPageSize, c)
DoGetPagination ==
    /\ c_fn = "none"
    /\ \E defaultPageSize \in DefaultPageSizes, pageNumber \in PageQueries,
          pageSize \in PageQueries, filter \in {"", "f"} :
         /\ c_fn' = "GetPagination"
         /\ c_in' = [defaultPageSize |-> defaultPageSize, pageNumber |-> pageNumber,
                     pageSize |-> pageSize, filter |-> filter]
         /\ c_out' = GetPagination(defaultPageSize, pageNumber, pageSize, filter)
    /\ CallRestUnchanged

\* the handler, once the backend has given the total, fills data
DoInitPagination ==
    /\ c_fn = "GetPagination"
    /\ \E total \in Totals :
         /\ c_fn' = "InitPagination"
         /\ c_in' = [query |-> c_in, filter |-> c_out.filter,
                     pageNumber |-> c_out.pageNumber, start |-> c_out.start,
                     end |-> c_out.end, total |-> total]
         /\ c_out' = InitPagination(c_out.filter, c_out.pageNumber, c_out.end, total)
    /\ CallRestUnchanged

PaginationNext ==
    \/ DoGetPagination
    \/ DoInitPagination

(***************************************************************************)
(* Sessions (src/session.go): manageSession around the handler chain, the  *)
(* SessionWrapper, and the session service as its client shows it          *)
(***************************************************************************)
MaxOps == 2
SessionRequests == {1, 2}
SessionKeys == {"k1", "k2"}
SessionValue == "v"
CookieText == <<"7">>         \* the cookie of a session made earlier
CookieId == ParseUint(CookieText).value
FirstGenerated == CookieId + 1
SessionIds == CookieId..(FirstGenerated + Cardinality(SessionRequests) - 1)

\* map[string]string
EmptyMap == [k \in {} |-> ""]
MapGet(map, key) == IF key \in DOMAIN map THEN map[key] ELSE ""
MapPut(map, key, value) ==
    [k \in DOMAIN map \cup {key} |-> IF k = key THEN value ELSE map[k]]
MapDelete(map, key) == [k \in DOMAIN map \ {key} |-> map[k]]

\* the session cookie of a request: none, or its text
NoCookie == [present |-> FALSE, value |-> <<>>]
Cookie(text) == [present |-> TRUE, value |-> text]
Cookies == {NoCookie, Cookie(CookieText), Cookie(<<"x">>)}

\* a getSessionId that sets the cookie whether or not Generate succeeded
getSessionIdCookieAnyway(cookie, generate, nextId) ==
    LET parsed == ParseUint(cookie.value)
    IN IF cookie.present /\ parsed.err = NoErr
       THEN [sessionId |-> parsed.value, err |-> NoErr, calls |-> <<>>,
             setCookie |-> <<>>]
       ELSE [sessionId |-> IF generate THEN nextId ELSE 0,
             err |-> IF generate THEN NoErr ELSE "GenerateError",
             calls |-> <<"Generate">>, setCookie |-> FormatUint(nextId)]

\* getSessionId: generate says whether sessionclient.Generate succeeds
getSessionId(cookie, generate, nextId) ==
    LET parsed == ParseUint(cookie.value)
    IN IF cookie.present /\ parsed.err = NoErr
       THEN [sessionId |-> parsed.value, err |-> NoErr, calls |-> <<>>,
             setCookie |-> <<>>]
       ELSE IF generate
       THEN [sessionId |-> nextId, err |-> NoErr, calls |-> <<"Generate">>,
             setCookie |-> FormatUint(nextId)]
       ELSE [sessionId |-> 0, err |-> "GenerateError", calls |-> <<"Generate">>,
             setCookie |-> <<>>]

\* a Store that raises the flag whatever the old value was
StoreAlwaysChanged(sw, key, value) ==
    [session |-> MapPut(sw.session, key, value), change |-> TRUE]

\* SessionWrapper.Store
Store(sw, key, value) ==
    IF MapGet(sw.session, key) # value
    THEN [session |-> MapPut(sw.session, key, value), change |-> TRUE]
    ELSE sw

\* SessionWrapper.Delete
Delete(sw, key) ==
    IF key \in DOMAIN sw.session
    THEN [session |-> MapDelete(sw.session, key), change |-> TRUE]
    ELSE sw

NoSessionRequest ==
    [pc |-> "start", cookie |-> NoCookie, sessionId |-> 0,
     sw |-> [session |-> EmptyMap, change |-> FALSE], loaded |-> EmptyMap,
     ops |-> 0, calls |-> <<>>, status |-> 0, setCookie |-> <<>>]
NoStep == [req |-> 0, op |-> "none", key |-> "", value |-> ""]

SessionIdle ==
    /\ s_service = [id \in SessionIds |-> EmptyMap]
    /\ s_nextId = FirstGenerated
    /\ s_req = [r \in SessionRequests |-> NoSessionRequest]
    /\ s_last = NoStep

SessionRestUnchanged ==
    UNCHANGED <<treeVars, urlVars, dispatchVars, lookupVars, walkVars, runVars, widgetVars,
                callVars, extractVars>>

\* manageSession up to the answer of getSessionId; a failed Generate aborts
\* the request
DoGetSessionId ==
    /\ \E r \in SessionRequests, cookie \in Cookies, generate \in BOOLEAN :
         /\ s_req[r].pc = "start"
         /\ LET got == getSessionId(cookie, generate, s_nextId)
            IN /\ s_req' = [s_req EXCEPT ![r] =
                     [@ EXCEPT !.cookie = cookie, !.sessionId = got.sessionId,
                               !.calls = got.calls, !.setCookie = got.setCookie,
                               !.pc = IF got.err = NoErr THEN "GetInfo" ELSE "done",
                               !.status = IF got.err = NoErr
                                          THEN 0 ELSE StatusInternalServerError]]
               /\ s_nextId' = IF got.calls # <<>> /\ got.err = NoErr
                              THEN s_nextId + 1 ELSE s_nextId
    /\ s_last' = NoStep
    /\ UNCHANGED s_service
    /\ SessionRestUnchanged

\* sessionclient.GetInfo(sessionId), c.Set(sessionName, wrapper), c.Next()
DoGetInfo ==
    /\ \E r \in SessionRequests, ok \in BOOLEAN :
         /\ s_req[r].pc = "GetInfo"
         /\ LET session == IF ok THEN s_service[s_req[r].sessionId] ELSE EmptyMap
            IN s_req' = [s_req EXCEPT ![r] =
                   [@ EXCEPT !.sw = [session |-> session, change |-> ~ok],
                             !.loaded = session,
                             !.calls = @ \o <<IF ok THEN "GetInfo" ELSE "GetInfo failed",
                                             "Next">>,
                             !.pc = "handlers"]]
    /\ s_last' = NoStep
    /\ UNCHANGED <<s_service, s_nextId>>
    /\ SessionRestUnchanged

\* a handler of the chain reads a key
DoLoad ==
    /\ \E r \in SessionRequests, key \in SessionKeys :
         /\ s_req[r].pc = "handlers"
         /\ s_req[r].ops < MaxOps
         /\ s_req' = [s_req EXCEPT ![r].ops = @ + 1]
         /\ s_last' = [req |-> r, op |-> "Load", key |-> key,
                       value |-> MapGet(s_req[r].sw.session, key)]
    /\ UNCHANGED <<s_service, s_nextId>>
    /\ SessionRestUnchanged

\* a handler of the chain stores a value
DoStore ==
    /\ \E r \in SessionRequests, key \in SessionKeys, value \in {"", SessionValue} :
         /\ s_req[r].pc = "handlers"
         /\ s_req[r].ops < MaxOps
         /\ s_req' = [s_req EXCEPT ![r].ops = @ + 1,
                                   ![r].sw = Store(s_req[r].sw, key, value)]
         /\ s_last' = [req |-> r, op |-> "Store", key |-> key, value |-> value]
    /\ UNCHANGED <<s_service, s_nextId>>
    /\ SessionRestUnchanged

\* a handler of the chain deletes a key
DoDelete ==
    /\ \E r \in SessionRequests, key \in SessionKeys :
         /\ s_req[r].pc = "handlers"
         /\ s_req[r].ops < MaxOps
         /\ s_req' = [s_req EXCEPT ![r].ops = @ + 1,
                                   ![r].sw = Delete(s_req[r].sw, key)]
         /\ s_last' = [req |-> r, op |-> "Delete", key |-> key, value |-> ""]
    /\ UNCHANGED <<s_service, s_nextId>>
    /\ SessionRestUnchanged

\* c.Next() returns; manageSession saves the session when the flag is up
DoUpdateInfo ==
    /\ \E r \in SessionRequests, ok \in BOOLEAN :
         /\ s_req[r].pc = "handlers"
         /\ IF s_req[r].sw.change
            THEN /\ s_service' = IF ok
                                 THEN [s_service EXCEPT ![s_req[r].sessionId] =
                                           s_req[r].sw.session]
                                 ELSE s_service
                 /\ s_req' = [s_req EXCEPT ![r].pc = "done",
                                 ![r].calls = @ \o <<IF ok THEN "UpdateInfo"
                                                     ELSE "UpdateInfo failed">>,
                                 ![r].status = StatusOK]
            ELSE /\ ok
                 /\ s_req' = [s_req EXCEPT ![r].pc = "done", ![r].status = StatusOK]
                 /\ UNCHANGED s_service
    /\ s_last' = NoStep
    /\ UNCHANGED s_nextId
    /\ SessionRestUnchanged

SessionNext ==
    \/ DoGetSessionId
    \/ DoGetInfo
    \/ DoLoad
    \/ DoStore
    \/ DoDelete
    \/ DoUpdateInfo

(***************************************************************************)
(* FilterExtractHtml (src/common/common.go): the sendChar goroutine hands   *)
(* the characters over an unbuffered channel, FilterExtractHtml copies      *)
(* them to its buffer until extractSize characters of text are passed      *)
(***************************************************************************)
MaxExtractSize == 2

htmlVoidElement == {<<"b", "r">>, <<"h", "r">>}

\* well-formed documents: characters of text and tags
Text(char) == [kind |-> "text", name |-> <<char>>, attributes |-> <<>>]
StartTag(name, attributes) == [kind |-> "start", name |-> name, attributes |-> attributes]
EndTag(name) == [kind |-> "end", name |-> name, attributes |-> <<>>]
Documents ==
    { <<>>,
      <<Text("x")>>,
      <<Text("x"), Text("y"), Text("z")>>,
      <<StartTag(<<"p">>, <<>>), Text("x"), EndTag(<<"p">>)>>,
      <<StartTag(<<"p">>, <<>>), Text("x"), Text("y"), Text("z"), EndTag(<<"p">>)>>,
      <<Text("x"), StartTag(<<"d", "i", "v">>, <<>>), Text("y"), EndTag(<<"d", "i", "v">>)>>,
      <<StartTag(<<"a">>, <<"h">>), Text("x"), EndTag(<<"a">>), Text("y")>>,
      <<Text("x"), StartTag(<<"b", "r">>, <<>>), Text("y")>>,
      <<StartTag(<<"p">>, <<>>), StartTag(<<"e", "m">>, <<>>), Text("x"), Text("y"),
        EndTag(<<"e", "m">>), Text("z"), EndTag(<<"p">>)>> }

\* the text of a tag
Render(item) ==
    IF item.kind = "text" THEN item.name
    ELSE IF item.kind = "end" THEN <<"<", "/">> \o item.name \o <<">">>
    ELSE <<"<">> \o item.name
         \o (IF item.attributes = <<>> THEN <<>> ELSE <<" ">> \o item.attributes)
         \o <<">">>

RECURSIVE RenderAll(_)
RenderAll(doc) == IF doc = <<>> THEN <<>> ELSE Render(Head(doc)) \o RenderAll(Tail(doc))

Htmls == {RenderAll(doc) : doc \in Documents}

\* Stack[string]: the top is the last element
Push(stack, e) == Append(stack, e)
Pop(stack) == IF stack = <<>> THEN stack ELSE SubSeq(stack, 1, Len(stack) - 1)

\* copy(buffer, temp): the first min(len(buffer), len(temp)) elements of
\* buffer are overwritten, its length stays
Copy(buffer, temp) ==
    [i \in 1..Len(buffer) |-> IF i <= Len(temp) THEN temp[i] ELSE buffer[i]]

\* lines 146-156: the start tag once copyTagName has returned
StartTagRead(buffer, temp, stack, notEnded) ==
    [stack |-> IF temp \notin htmlVoidElement THEN Push(stack, temp) ELSE stack,
     buffer |-> Copy(Append(buffer, "<"), temp)
                \o (IF notEnded THEN <<" ">> ELSE <<">">>)]

\* lines 168-172: the tags still open are closed, the last opened first
RECURSIVE CloseTags(_, _)
CloseTags(buffer, stack) ==
    IF stack = <<>> THEN buffer
    ELSE CloseTags(buffer \o <<"<", "/">> \o stack[Len(stack)] \o <<">">>, Pop(stack))

ExtractIdle ==
    /\ e_html = <<>>
    /\ e_size = 0
    /\ e_prod = "idle"
    /\ e_sent = 0
    /\ e_cons = "idle"
    /\ e_buffer = <<>>
    /\ e_temp = <<>>
    /\ e_count = 0
    /\ e_stack = <<>>
    /\ e_out = <<>>

ExtractRestUnchanged ==
    UNCHANGED <<treeVars, urlVars, dispatchVars, lookupVars, walkVars, runVars, widgetVars,
                callVars, sessionVars>>

\* the places where FilterExtractHtml receives from chars
Receiving == {"range", "char2", "copyTagName end", "copyTagName start", "copyTagAttribute"}

\* FilterExtractHtml up to its first receive; go sendChar(chars, html)
DoFilterExtractHtml ==
    /\ e_cons = "idle"
    /\ \E html \in Htmls, extractSize \in 0..MaxExtractSize :
         /\ e_html' = html
         /\ e_size' = extractSize
    /\ e_prod' = "sending"
    /\ e_cons' = "range"
    /\ UNCHANGED <<e_sent, e_buffer, e_temp, e_count, e_stack, e_out>>
    /\ ExtractRestUnchanged

\* chars <- char meets a receive of FilterExtractHtml, which goes on to its
\* next receive or leaves its loop
DoSendChar ==
    /\ e_prod = "sending"
    /\ e_sent < Len(e_html)
    /\ e_cons \in Receiving
    /\ e_sent' = e_sent + 1
    /\ LET char == e_html[e_sent + 1]
       IN CASE e_cons = "range" /\ char = "<" ->
                 /\ e_cons' = "char2"
                 /\ UNCHANGED <<e_buffer, e_temp, e_count, e_stack>>
            [] e_cons = "range" /\ char # "<" ->
                 /\ e_count' = e_count + 1
                 /\ e_buffer' = IF e_count + 1 > e_size
                                THEN e_buffer \o <<char, ".", ".", ".">>
                                ELSE Append(e_buffer, char)
                 /\ e_cons' = IF e_count + 1 > e_size THEN "break" ELSE "range"
                 /\ UNCHANGED <<e_temp, e_stack>>
            [] e_cons = "char2" /\ char = "/" ->
                 /\ e_buffer' = e_buffer \o <<"<", "/">>
                 /\ e_cons' = "copyTagName end"
                 /\ UNCHANGED <<e_temp, e_count, e_stack>>
            [] e_cons = "char2" /\ char # "/" ->
                 /\ e_temp' = <<>>
                 /\ e_cons' = "copyTagName start"
                 /\ UNCHANGED <<e_buffer, e_count, e_stack>>
            [] e_cons = "copyTagName end" /\ char \in {" ", ">"} ->
                 /\ e_buffer' = Append(e_buffer, ">")
                 /\ e_stack' = Pop(e_stack)
                 /\ e_cons' = "range"
                 /\ UNCHANGED <<e_temp, e_count>>
            [] e_cons = "copyTagName end" /\ char \notin {" ", ">"} ->
                 /\ e_buffer' = Append(e_buffer, char)
                 /\ UNCHANGED <<e_cons, e_temp, e_count, e_stack>>
            [] e_cons = "copyTagName start" /\ char \in {" ", ">"} ->
                 LET read == StartTagRead(e_buffer, e_temp, e_stack, char = " ")
                 IN /\ e_buffer' = read.buffer
                    /\ e_stack' = read.stack
                    /\ e_cons' = IF char = " " THEN "copyTagAttribute" ELSE "range"
                    /\ UNCHANGED <<e_temp, e_count>>
            [] e_cons = "copyTagName start" /\ char \notin {" ", ">"} ->
                 /\ e_temp' = Append(e_temp, char)
                 /\ UNCHANGED <<e_cons, e_buffer, e_count, e_stack>>
            [] e_cons = "copyTagAttribute" /\ char = ">" ->
                 /\ e_buffer' = Append(e_buffer, ">")
                 /\ e_cons' = "range"
                 /\ UNCHANGED <<e_temp, e_count, e_stack>>
            [] e_cons = "copyTagAttribute" /\ char # ">" ->
                 \* appended to the callee's slice, which the caller drops
                 UNCHANGED <<e_cons, e_buffer, e_temp, e_count, e_stack>>
    /\ UNCHANGED <<e_html, e_size, e_prod, e_out>>
    /\ ExtractRestUnchanged

\* sendChar has sent every character: close(chars)
DoCloseChars ==
    /\ e_prod = "sending"
    /\ e_sent = Len(e_html)
    /\ e_prod' = "closed"
    /\ UNCHANGED <<e_html, e_size, e_sent, e_cons, e_buffer, e_temp, e_count, e_stack, e_out>>
    /\ ExtractRestUnchanged

\* a receive of FilterExtractHtml on the closed channel
DoReceiveClosed ==
    /\ e_prod = "closed"
    /\ e_cons \in Receiving
    /\ CASE e_cons = "range" ->
              /\ e_cons' = "break"
              /\ UNCHANGED <<e_buffer, e_temp, e_stack>>
         [] e_cons = "char2" ->
              /\ e_temp' = <<>>
              /\ e_cons' = "copyTagName start"
              /\ UNCHANGED <<e_buffer, e_stack>>
         [] e_cons = "copyTagName end" ->
              /\ e_buffer' = Append(e_buffer, ">")
              /\ e_stack' = Pop(e_stack)
              /\ e_cons' = "range"
              /\ UNCHANGED e_temp
         [] e_cons = "copyTagName start" ->
              LET read == StartTagRead(e_buffer, e_temp, e_stack, TRUE)
              IN /\ e_buffer' = read.buffer
                 /\ e_stack' = read.stack
                 /\ e_cons' = "copyTagAttribute"
                 /\ UNCHANGED e_temp
         [] e_cons = "copyTagAttribute" ->
              /\ e_buffer' = Append(e_buffer, ">")
              /\ e_cons' = "range"
              /\ UNCHANGED <<e_temp, e_stack>>
    /\ UNCHANGED <<e_html, e_size, e_prod, e_sent, e_count, e_out>>
    /\ ExtractRestUnchanged

\* after the loop: the open tags are closed and the buffer is returned
DoReturnExtract ==
    /\ e_cons = "break"
    /\ e_out' = CloseTags(e_buffer, e_stack)
    /\ e_cons' = "returned"
    /\ UNCHANGED <<e_html, e_size, e_prod, e_sent, e_buffer, e_temp, e_count, e_stack>>
    /\ ExtractRestUnchanged

ExtractNext ==
    \/ DoFilterExtractHtml
    \/ DoSendChar
    \/ DoCloseChars
    \/ DoReceiveClosed
    \/ DoReturnExtract

OthersIdle ==
    /\ LookupIdle /\ WalkIdle /\ RunIdle /\ WidgetIdle /\ CallIdle /\ SessionIdle
    /\ ExtractIdle

UrlIdle ==
    /\ u_path = <<Slash>>
    /\ u_level = 0
    /\ u_res = <<"no base">>
    /\ u_pc = "idle"
    /\ u_base = <<"no base">>
    /\ u_hops = 0

TreeIdle == TreeInit /\ t_build = "part_001"

\* the two revisions of the page code differ in localizedTmpl only, which
\* the serving specification exercises; the site is composed with the newer
SiteInit == TreeIdle /\ UrlIdle /\ DispatchInit /\ OthersIdle

SpecTree == SiteInit /\ [][TreeNext]_vars

LookupInit == TreeIdle /\ UrlIdle /\ DispatchInit /\ OthersIdle

WalkInit == TreeIdle /\ UrlIdle /\ DispatchInit /\ OthersIdle

SpecWalk == WalkInit /\ [][WalkNext]_vars

BlogInit == TreeIdle /\ UrlIdle /\ DispatchInit /\ OthersIdle

SpecBlog == BlogInit /\ [][BlogNext]_vars

WikiInit == TreeIdle /\ UrlIdle /\ DispatchInit /\ OthersIdle

SpecWiki == WikiInit /\ [][WikiNext]_vars

DisplayInit == TreeIdle /\ UrlIdle /\ DispatchInit /\ OthersIdle

SpecDisplay == DisplayInit /\ [][DisplayNext]_vars

PaginationInit == TreeIdle /\ UrlIdle /\ DispatchInit /\ OthersIdle

SpecPagination == PaginationInit /\ [][PaginationNext]_vars

ExtractInit == TreeIdle /\ UrlIdle /\ DispatchInit /\ OthersIdle

SpecExtract == ExtractInit /\ [][ExtractNext]_vars

\* both goroutines are scheduled whenever they can take a step
SpecExtractFair ==
    /\ ExtractInit
    /\ [][ExtractNext]_vars
    /\ WF_vars(DoFilterExtractHtml)
    /\ WF_vars(DoSendChar)
    /\ WF_vars(DoCloseChars)
    /\ WF_vars(DoReceiveClosed)
    /\ WF_vars(DoReturnExtract)

SessionInit == TreeIdle /\ UrlIdle /\ DispatchInit /\ OthersIdle

SpecSession == SessionInit /\ [][SessionNext]_vars

RunInit == TreeIdle /\ UrlIdle /\ DispatchInit /\ OthersIdle

SpecRun == RunInit /\ [][RunNext]_vars

\* the goroutines of the program are scheduled; that a server fails or
\* that a client sends a request is up to the environment
SpecRunFair ==
    RunInit /\ [][RunNext]_vars
        /\ WF_vars(DoRunInitEngine) /\ WF_vars(DoGo) /\ WF_vars(DoListen)
        /\ WF_vars(DoWaitReturn)

SpecLookup == LookupInit /\ [][LookupNext]_vars

ServingInit == ServeInit /\ UrlIdle /\ DispatchInit /\ OthersIdle

SpecServe == ServingInit /\ [][ServeNext]_vars


HandlersInit == DispatchInit /\ UrlIdle /\ TreeIdle /\ OthersIdle

SpecDispatch == HandlersInit /\ [][DispatchNext]_vars

UrlInit ==
    /\ u_path \in Paths
    /\ u_level \in 0..MaxLevel
    /\ u_res = NoBase
    /\ u_pc = "start"
    /\ u_base = NoBase
    /\ u_hops = 0

\* a handler calls GetBaseUrl(levelToErase, c)
CallGetBaseUrl ==
    /\ u_pc = "start"
    /\ u_res' = GetBaseUrl(u_level, u_path)
    /\ u_pc' = "called"
    /\ UNCHANGED <<u_path, u_level, u_base, u_hops, treeVars, dispatchVars, otherVars>>

\* the client follows a link built by postUrlBuilder from the returned base
FollowPostUrl ==
    /\ u_pc = "called"
    /\ u_res # Panic
    /\ u_hops < MaxHops
    /\ \E postId \in PostIds, level \in 0..MaxLevel :
         /\ u_path' = postUrlBuilder(u_res, postId)
         /\ u_level' = level
    /\ u_base' = u_res
    /\ u_res' = NoBase
    /\ u_pc' = "start"
    /\ u_hops' = u_hops + 1
    /\ UNCHANGED <<treeVars, dispatchVars, otherVars>>

UrlNext == CallGetBaseUrl \/ FollowPostUrl

RequestInit == UrlInit /\ TreeIdle /\ DispatchInit /\ OthersIdle

SpecUrl == RequestInit /\ [][UrlNext]_vars

(***************************************************************************)
(* Properties of the path algebra                                          *)
(***************************************************************************)
SlashPos(res) == {i \in 1..Len(res) : res[i] = Slash}

\* position of the separator that has exactly n separators after it
HasCut(res, n) == \E p \in SlashPos(res) : Cardinality({q \in SlashPos(res) : q > p}) = n
CutPos(res, n) ==
    CHOOSE p \in SlashPos(res) : Cardinality({q \in SlashPos(res) : q > p}) = n

IsPrefix(s, t) == Len(s) <= Len(t) /\ SubSeq(t, 1, Len(s)) = s

\* C9: whenever GetBaseUrl(n, request) returns, the result is the normalised
\* path cut just after the n-th '/' counted backward from (and not counting)
\* the final '/'; GetBaseUrl(0) is GetCurrentUrl; the result starts and ends
\* with '/' and is a prefix of GetBaseUrl(m) for every m < n.
C9_BaseUrlIsCutPrefix ==
    (u_pc = "called" /\ u_res # Panic) =>
        LET res == GetCurrentUrl(u_path)
        IN /\ HasCut(res, u_level)
           /\ u_res = SubSeq(res, 1, CutPos(res, u_level))
           /\ (u_level = 0 => u_res = GetCurrentUrl(u_path))
           /\ u_res[1] = Slash
           /\ u_res[Len(u_res)] = Slash
           /\ \A m \in 0..(u_level - 1) :
                 /\ GetBaseUrl(m, u_path) # Panic
                 /\ IsPrefix(u_res, GetBaseUrl(m, u_path))

C9_Witness ==
    /\ u_pc = "called"
    /\ u_level = 2
    /\ u_path = <<Slash, "a", Slash, "b">>
    /\ u_res = <<Slash>>

\* C10 as stated: after rebuilding B + "view/<id>", GetBaseUrl(1, .) is B.
C10_RoundTripLevel1 ==
    (u_pc = "called" /\ u_base # NoBase /\ u_level = 1) => u_res = u_base

\* C10 amended: for every base B returned by GetBaseUrl(n, request), the
\* request to B + "view/<id>" yields GetBaseUrl(2, .) = B, and
\* GetBaseUrl(1, .) = B + "view/".
C10_RoundTripLevel2 ==
    (u_pc = "called" /\ u_base # NoBase) =>
        /\ (u_level = 2 => u_res = u_base)
        /\ (u_level = 1 => u_res = u_base \o <<"v", "i", "e", "w", Slash>>)

C10_Witness ==
    /\ u_pc = "called"
    /\ u_level = 2
    /\ u_base = <<Slash, "a", Slash>>
    /\ u_res = u_base
    /\ u_path = <<Slash, "a", Slash, "v", "i", "e", "w", Slash, "1", "2", "3">>

(***************************************************************************)
(* Page tree properties                                                    *)
(***************************************************************************)
\* C1: p.AddSubPage(page) on a Page whose Widget is a *staticWidget appends
\* page at the end of that widget's subPages and changes nothing else; on
\* any other Widget (nil included) it changes nothing; it never fails
C1_AddSubPageEffect ==
    [][t_op'.op = "AddSubPage" =>
          /\ t_widgets' =
                IF t_op'.parent.Widget \in 1..Len(t_widgets)
                THEN [t_widgets EXCEPT ![t_op'.parent.Widget].subPages =
                                           @ \o <<t_op'.child>>]
                ELSE t_widgets
          /\ t_phase' = "setup"
          /\ t_fail' = NoFail
          /\ UNCHANGED <<t_root, t_routes, t_loaded>>]_vars

\* an AddSubPage on a page that holds the settings widget or no widget was
\* made on a tree that already has sub pages
C1_Witness ==
    /\ t_op.op = "AddSubPage"
    /\ ~IsStaticWidget(t_op.parent.Widget)
    /\ TotalSubPages(t_widgets) > 0
    /\ t_phase = "setup"

\* C2 (as stated): no two direct children of the same parent have the same
\* name
C2_SiblingNamesUnique ==
    \A w \in 1..Len(t_widgets) :
        \A i, j \in 1..Len(t_widgets[w].subPages) :
            i # j => t_widgets[w].subPages[i].name # t_widgets[w].subPages[j].name

\* C3 (as stated): while the site serves, the widgets stay as LoadInto
\* found them
C3_ServingLeavesWidgetsUnchanged ==
    t_phase = "serving" => t_widgets = t_loaded

C5_RenderOrRedirect ==
    d_kind = "CreateTemplate" =>
        /\ Len(d_out) = 1
        /\ d_in[2] # Empty => d_out = <<Redirect(StatusFound, d_in[2])>>
        /\ d_in[2] = Empty => d_out = <<HTML(StatusOK, d_in[1], d_data)>>

\* the wiki viewHandler returned its template and a redirect together
C5_Witness ==
    /\ d_kind = "CreateTemplate"
    /\ d_in[1] = ViewTmpl
    /\ d_in[2] # Empty
    /\ d_out = <<Redirect(StatusFound, d_in[2])>>

\* the name localizedTmpl was built with
BuiltTmpl(w) == t_loaded[w].tmpl

\* C6 (as stated): when access is granted the closure returns the template
\* name it was built with, prefixed by the locale and "/" exactly when the
\* locale is not the default one, and an empty redirect
C6_LocalizedName ==
    (t_op.op = "GET" /\ t_op.authErr = NoErr /\ Len(t_ran) = 1
        /\ t_ran[1].fn = "displayHandler") =>
        t_ret = <<IF t_op.lang # DefaultLang
                  THEN <<t_op.lang, Slash>> \o BuiltTmpl(t_ran[1].widget)
                  ELSE BuiltTmpl(t_ran[1].widget),
                  Empty>>

Position(calls, fn) == {i \in 1..Len(calls) : calls[i].fn = fn}

\* C7: the closure asks the authorization service for the access action on
\* the widget's group before it looks at the locale; when the answer is an
\* error it returns ("", DefaultErrorRedirect(error)) and the request is
\* answered by that redirect, with no render and no look at the locale
C7_AuthBeforeLocale ==
    (t_op.op = "GET" /\ Len(t_ran) = 1 /\ t_ran[1].fn = "displayHandler") =>
        LET w == t_ran[1].widget
        IN /\ \E i \in Position(t_calls, "AuthQuery") :
                 /\ t_calls[i].groupId = t_loaded[w].groupId
                 /\ t_calls[i].action = ActionAccess
                 /\ \A j \in Position(t_calls, "GetLang")
                            \cup Position(t_calls, "GetDefaultLang") : i < j
           /\ t_op.authErr # NoErr =>
                 /\ t_ret = <<Empty, DefaultErrorRedirect(t_op.authErr)>>
                 /\ t_resp = <<Redirect(StatusFound, DefaultErrorRedirect(t_op.authErr))>>
                 /\ Position(t_calls, "GetLang") = {}
           /\ t_op.authErr = NoErr => Position(t_calls, "GetLang") # {}

\* access was denied to a request in a locale other than the default one
C7_Witness ==
    /\ t_op.op = "GET"
    /\ t_op.authErr # NoErr
    /\ t_op.lang # DefaultLang
    /\ Len(t_ran) = 1
    /\ t_ran[1].fn = "displayHandler"
    /\ t_resp # <<>>
    /\ t_resp[1].kind = "redirect"

\* C8: a handler built by CreateRedirect or CreateRedirectString answers
\* with status 302 and never sends an empty Location: an empty target is
\* replaced by "/"
C8_RedirectNeverEmpty ==
    /\ d_kind = "CreateRedirect" =>
          d_out = <<Redirect(StatusFound, IF d_in = Empty THEN <<Slash>> ELSE d_in)>>
    /\ d_kind = "NoRoute" =>
          d_out = <<Redirect(StatusFound,
                             IF d_page404 = Empty THEN <<Slash>> ELSE d_page404)>>
    /\ d_kind \in {"CreateRedirect", "NoRoute"} =>
          /\ d_out[1].status = 302
          /\ d_out[1].location # Empty

\* the NoRoute handler of a site whose Page404Url was never set answered
C8_Witness ==
    /\ d_kind = "NoRoute"
    /\ d_page404 = Empty
    /\ d_out = <<Redirect(StatusFound, <<Slash>>)>>

(***************************************************************************)
(* Bounds of GetBaseUrl                                                    *)
(***************************************************************************)
SeparatorCount(res) == Cardinality(SlashPos(res))

\* C11 (as stated): when the normalized path holds at least levelToErase
\* separators, GetBaseUrl returns without reading outside the path
C11_ReturnsWithAtLeastLevelSeparators ==
    (u_pc = "called" /\ SeparatorCount(GetCurrentUrl(u_path)) >= u_level) =>
        u_res # Panic

\* C11 (amended): GetBaseUrl returns, with a non-empty prefix of the
\* normalized path, exactly when that path holds more than levelToErase
\* separators; with levelToErase separators or fewer it reads res[-1]
C11_ReturnsIffMoreThanLevelSeparators ==
    u_pc = "called" =>
        LET res == GetCurrentUrl(u_path)
        IN /\ u_res # Panic <=> SeparatorCount(res) > u_level
           /\ u_res # Panic => /\ Len(u_res) \in 1..Len(res)
                               /\ u_res = SubSeq(res, 1, Len(u_res))

\* a call that erased as many levels as the path allows
C11_Witness ==
    /\ u_pc = "called"
    /\ u_level = 1
    /\ u_path = <<Slash, "a", Slash>>
    /\ SeparatorCount(GetCurrentUrl(u_path)) = u_level + 1
    /\ u_res = <<Slash>>

(***************************************************************************)
(* Properties of the lookups                                               *)
(***************************************************************************)
\* the direct children of a page: none unless its Widget is a static widget
Children(heap, p) ==
    IF p.Widget \in 1..Len(heap) THEN heap[p.Widget].subPages ELSE <<>>

NamedAt(kids, name) == {i \in 1..Len(kids) : kids[i].name = name}

FirstAt(kids, name) == CHOOSE i \in NamedAt(kids, name) : \A j \in NamedAt(kids, name) : i <= j

\* C12: GetSubPage(name) finds a page exactly when name is not empty, the
\* receiver holds a static widget and a direct child has that name; it
\* returns the first such child in insertion order, and Page{} with
\* found = false in every other case (grandchildren are never looked at)
C12_GetSubPageExact ==
    l_call.fn = "GetSubPage" =>
        LET kids == Children(t_widgets, l_call.receiver)
            found == /\ l_call.name # ""
                     /\ IsStaticWidget(l_call.receiver.Widget)
                     /\ NamedAt(kids, l_call.name) # {}
        IN /\ l_res.ok <=> found
           /\ found => l_res.page = kids[FirstAt(kids, l_call.name)]
           /\ ~found => l_res.page = NoPage

\* the root was asked for a name that only a grandchild has
C12_Witness ==
    /\ l_call.fn = "GetSubPage"
    /\ l_call.receiver = RootPage
    /\ l_call.name = "b"
    /\ ~l_res.ok
    /\ \E i \in 1..Len(Children(t_widgets, RootPage)) :
          NamedAt(Children(t_widgets, Children(t_widgets, RootPage)[i]), "b") # {}

\* the page reached from p by taking, segment after segment, the first
\* child of that name, until a segment has no such child
RECURSIVE Descend(_, _, _)
Descend(heap, p, segments) ==
    IF segments = <<>> THEN p
    ELSE LET kids == Children(heap, p)
             name == Head(segments)
         IN IF name = "" \/ NamedAt(kids, name) = {} THEN p
            ELSE Descend(heap, kids[FirstAt(kids, name)], Tail(segments))

\* the segments of a path; "" where nothing lies between two separators
SegmentCount(path) == Cardinality({i \in 1..Len(path) : path[i] = Slash}) + 1
SegmentStart(path, k) ==
    IF k = 1 THEN 1
    ELSE 1 + (CHOOSE i \in 1..Len(path) :
                 /\ path[i] = Slash
                 /\ Cardinality({j \in 1..i : path[j] = Slash}) = k - 1)
Segment(path, k) ==
    LET from == SegmentStart(path, k)
    IN IF from > Len(path) \/ path[from] = Slash THEN "" ELSE path[from]
Segments(path) == [k \in 1..SegmentCount(path) |-> Segment(path, k)]

\* C13 (as stated): extractSubPageFromPath returns the deepest node that
\* the segments of path match, child by child, and the last segment
C13_DeepestMatchOfAllSegments ==
    l_call.fn = "extractSubPageFromPath" =>
        /\ l_res.page = Descend(t_widgets, l_call.receiver, Segments(l_call.path))
        /\ l_res.name = Segment(l_call.path, SegmentCount(l_call.path))

\* C13 (amended): the walk covers the segments before the last one only;
\* the last segment is returned as it is and is never looked up
C13_DeepestMatchBeforeLastSegment ==
    l_call.fn = "extractSubPageFromPath" =>
        LET segments == Segments(l_call.path)
        IN /\ l_res.page = Descend(t_widgets, l_call.receiver,
                                   SubSeq(segments, 1, Len(segments) - 1))
           /\ l_res.name = segments[Len(segments)]

\* a/b was asked of the root of a tree that has the page b under the page a
C13_Witness ==
    /\ l_call.fn = "extractSubPageFromPath"
    /\ l_call.receiver = RootPage
    /\ l_call.path = <<"a", Slash, "b">>
    /\ l_res.name = "b"
    /\ l_res.page.name = "a"
    /\ NamedAt(Children(t_widgets, l_res.page), "b") # {}

(***************************************************************************)
(* Properties of the folder walk                                           *)
(***************************************************************************)
WalkedNested == w_state = "done" /\ w_entries = FolderNested

\* the widgets of the start, the two new ones left aside
SameAsStart(heap, except) ==
    \A w \in (1..Len(w_start)) \ except : heap[w] = w_start[w]

StartChildren(w) == IF w \in 1..Len(w_start) THEN w_start[w].subPages ELSE <<>>

ParentDir(innerPath) ==
    LET cut == CHOOSE i \in 1..Len(innerPath) :
                  innerPath[i] = Slash /\ \A j \in (i + 1)..Len(innerPath) : innerPath[j] # Slash
    IN SubSeq(innerPath, 1, cut - 1)
EntryName(e) ==
    LET upTo == IF e.isDir THEN Len(e.innerPath) ELSE Len(e.innerPath) - 1
    IN IF e.innerPath[upTo] = Slash THEN "" ELSE e.innerPath[upTo]
MakesPage(e) ==
    IF e.isDir THEN e.innerPath # <<FolderName>>
    ELSE e.innerPath[Len(e.innerPath)] = TemplateExt /\ EntryName(e) # "index"

\* C15 (as stated): the starting folder and an index template make no page;
\* every other directory or template visited makes exactly one new static
\* page, attached under the page of its parent directory
C15_OnePagePerEntryUnderParent ==
    [][(w_state = "walking" /\ w_next' = w_next + 1) =>
          LET e == w_entries[w_next]
              n == Len(t_widgets)
          IN IF MakesPage(e)
             THEN LET parent == (CHOOSE d \in w_dirPage : d.dir = ParentDir(e.innerPath)).page
                      page == [name |-> EntryName(e), visible |-> TRUE, Widget |-> n + 1]
                  IN /\ Len(t_widgets') = n + 1
                     /\ t_widgets'[parent.Widget].subPages
                           = IF parent.Widget = n + 1 THEN <<page>>
                             ELSE t_widgets[parent.Widget].subPages \o <<page>>
                     /\ \A w \in (1..n) \ {parent.Widget} : t_widgets'[w] = t_widgets[w]
             ELSE t_widgets' = t_widgets]_vars
(***************************************************************************)
(* Site.Run and Run(sites...)                                              *)
(***************************************************************************)
ListenerStarted(i) == r_srv[i] \in {"listening", "failed"}

\* C16: no listener is started by Site.Run or by Run(sites...) before the
\* engine of every site passed to it is initialized (the fatal HTMLRender
\* check included), so no site has accepted traffic in a process that
\* exits on a configuration error.
C16_NoListenerBeforeEveryEngine ==
    /\ \A i \in 1..Len(r_sites) :
         ListenerStarted(i) => \A j \in 1..Len(r_sites) : r_engine[j]
    /\ r_pc = "exited" => \A i \in 1..Len(r_sites) : ~r_traffic[i]

\* C17: once the server of any one site has stopped with an error, Run
\* eventually returns that error (or the process is gone) instead of
\* blocking on the listeners still serving.
C17_RunReturnsWhenAServerFails ==
    (\E i \in 1..Len(r_sites) : r_srv[i] = "failed")
        ~> (r_pc = "exited" \/ (r_pc = "returned" /\ r_err # NoError))

(***************************************************************************)
(* Blog widget                                                             *)
(***************************************************************************)
TemplatedBlogHandlers ==
    {"blog/listHandler", "blog/viewHandler", "blog/saveCommentHandler",
     "blog/deleteCommentHandler", "blog/createHandler", "blog/previewHandler",
     "blog/saveHandler", "blog/deleteHandler"}

\* the backend call named in the request was made, and failed
BackendFailed ==
    /\ h_req.fail.at \notin {"none", "buildFeed"}
    /\ \E i \in 1..Len(h_calls) : h_calls[i].fn = h_req.fail.at

\* C18: a blog handler built with CreateTemplate or CreateRedirect answers
\* a backend failure with a redirect and never writes a raw status; the
\* feed endpoint rssHandler answers 403 exactly when GetPosts fails with
\* ErrNotAuthorized, 500 for any other GetPosts failure or a feed-build
\* failure, and 200 otherwise.
C18_TemplatedRedirectFeedStatuses ==
    /\ h_handler \in TemplatedBlogHandlers =>
         /\ Len(h_resp) = 1
         /\ h_resp[1].kind \in {"html", "redirect"}
         /\ BackendFailed => h_resp[1].kind = "redirect" /\ h_resp[1].status = StatusFound
    /\ h_handler = "blog/rssHandler" =>
         /\ Len(h_resp) = 1
         /\ h_resp[1].status =
              IF h_req.fail.at = "GetPosts" /\ h_req.fail.err = ErrNotAuthorized
              THEN StatusForbidden
              ELSE IF h_req.fail.at \in {"GetPosts", "buildFeed"}
              THEN StatusInternalServerError
              ELSE StatusOK
         /\ h_resp[1].kind = IF h_resp[1].status = StatusOK THEN "data" ELSE "status"

C18_Witness ==
    /\ h_handler = "blog/rssHandler"
    /\ h_req.fail = [at |-> "GetPosts", err |-> ErrNotAuthorized]
    /\ h_resp = <<AbortWithStatus(StatusForbidden)>>

\* s is the decimal writing of an unsigned integer of 64 bits
IsUint64(s) ==
    /\ s # <<>>
    /\ \A i \in 1..Len(s) : s[i] \in DecDigits
    /\ LET d == StripZeros(s)
       IN \/ Len(d) < Len(MaxUint64Digits)
          \/ Len(d) = Len(MaxUint64Digits) /\ ~DigitsGreater(d, MaxUint64Digits)

IdHandlers ==
    {"blog/viewHandler", "blog/saveCommentHandler", "blog/deleteCommentHandler",
     "blog/deleteHandler"}

IdParseFails ==
    /\ h_handler \in IdHandlers
    /\ \/ ~IsUint64(h_req.postId)
       \/ h_handler = "blog/deleteCommentHandler" /\ ~IsUint64(h_req.commentId)

Carries(location, key) == \E i \in 1..Len(location) : location[i] = key

\* C19: when the postId (or commentId) of a blog request is no unsigned
\* integer, the handler calls neither the blog nor the comment service and
\* answers with a redirect carrying the generic technical-error key, not the
\* parse error.
C19_ParseFailureTechnicalRedirect ==
    IdParseFails =>
        /\ h_calls = <<>>
        /\ Len(h_resp) = 1
        /\ h_resp[1].kind = "redirect"
        /\ Carries(h_resp[1].location, ErrorTechnicalKey)
        /\ ~Carries(h_resp[1].location, ErrSyntax)
        /\ ~Carries(h_resp[1].location, ErrRange)

C19_Witness ==
    /\ h_handler = "blog/deleteCommentHandler"
    /\ h_req.postId = <<"7">>
    /\ h_req.commentId = TwoPow64Digits
    /\ h_calls = <<>>
    /\ Carries(h_resp[1].location, ErrorTechnicalKey)

(***************************************************************************)
(* Wiki widget                                                             *)
(***************************************************************************)
WikiHandlers ==
    {"wiki/viewHandler", "wiki/editHandler", "wiki/saveHandler", "wiki/listHandler",
     "wiki/deleteHandler"}

WikiBackendCalls == {"LoadContent", "StoreContent", "GetVersions", "DeleteContent"}

\* C20: every wiki handler (view, edit, save, list, delete) calls the
\* backend (LoadContent, StoreContent, GetVersions, DeleteContent) only
\* when CheckLang(askedLang) = askedLang; otherwise it makes no backend call
\* and answers with a redirect built with the validated language that
\* carries the WrongLang error.
C20_WikiLanguageRule ==
    h_handler \in WikiHandlers =>
        LET askedLang == h_req.askedLang
            lang == CheckLang(askedLang)
        IN /\ (\E i \in 1..Len(h_calls) : h_calls[i].fn \in WikiBackendCalls)
                 => lang = askedLang
           /\ lang # askedLang =>
                 /\ h_calls = <<>>
                 /\ Len(h_resp) = 1
                 /\ h_resp[1].kind = "redirect"
                 /\ SubSeq(h_resp[1].location, 1, 4) = <<Slash, "wiki", Slash, lang>>
                 /\ ~Carries(h_resp[1].location, askedLang)
                 /\ h_resp[1].location[Len(h_resp[1].location)] = WrongLang

C20_Witness ==
    /\ h_handler = "wiki/editHandler"
    /\ h_req.askedLang = "xx"
    /\ h_calls = <<>>
    /\ h_resp = <<Redirect(StatusFound,
                           <<Slash, "wiki", Slash, DefaultLang, Slash, "view", Slash,
                             "Home">> \o WriteError(WrongLang))>>

(***************************************************************************)
(* displayActions                                                          *)
(***************************************************************************)
\* the labels of the actions present, in the order access, create, update,
\* delete
LabelsOf(actions) ==
    SelectSeq(<<"AccessLabel", "CreateLabel", "UpdateLabel", "DeleteLabel">>,
              LAMBDA label : \E i \in 1..Len(actions) : ActionKey(actions[i]) = label)

\* C21: displayActions returns exactly one label per distinct action of
\* its input, in the order access, create, update, delete, and nothing
\* else (no empty or placeholder entry), for every input.
C21_OneLabelPerAction ==
    c_fn = "displayActions" => c_out = LabelsOf(c_in)

(***************************************************************************)
(* Cycles of the sub-page relation                                         *)
(***************************************************************************)
\* the static widgets held by the sub pages of widget w
SubWidgets(heap, w) ==
    {heap[w].subPages[i].Widget : i \in 1..Len(heap[w].subPages)} \cap (1..Len(heap))

\* the widgets reached from the set ws in one to k steps
RECURSIVE ReachedFrom(_, _, _)
ReachedFrom(heap, ws, k) ==
    IF k = 0 THEN {}
    ELSE LET next == UNION {SubWidgets(heap, w) : w \in ws}
         IN next \cup ReachedFrom(heap, next, k - 1)

OnCycle(heap, w) == w \in ReachedFrom(heap, {w}, Len(heap))

\* C22: in every page tree built by MakeStaticPage and AddSubPage calls
\* (adding a page to itself or to one of its descendants included) the
\* sub-page relation is acyclic and staticWidget.LoadInto terminates.
C22_SubPagesAcyclicLoadIntoTerminates ==
    /\ \A w \in 1..Len(t_widgets) : ~OnCycle(t_widgets, w)
    /\ t_fail # "stack overflow"

(***************************************************************************)
(* Sessions                                                                *)
(***************************************************************************)
CallsOf(r, names) == {i \in 1..Len(s_req[r].calls) : s_req[r].calls[i] \in names}
UpdateCalls(r) == CallsOf(r, {"UpdateInfo", "UpdateInfo failed"})
Served(r) == s_req[r].pc = "done" /\ s_req[r].status = StatusOK

\* C23: manageSession sends the session to the service at most once per
\* request and only after the handler chain has returned; it calls
\* UpdateInfo exactly when the wrapper's change flag is true then; the flag
\* is raised by a Store that changes a value, a Delete of a present key or
\* a failed initial GetInfo and is never reset, so a session whose final
\* content differs from the loaded one is always saved, and a request
\* whose steps change nothing after a successful load saves nothing.
C23_SavedExactlyWhenChanged ==
    /\ [](\A r \in SessionRequests :
            /\ Cardinality(UpdateCalls(r)) <= 1
            /\ UpdateCalls(r) # {} => /\ s_req[r].pc = "done"
                                      /\ UpdateCalls(r) = {Len(s_req[r].calls)}
                                      /\ CallsOf(r, {"Next"}) # {}
            /\ Served(r) => (UpdateCalls(r) # {} <=> s_req[r].sw.change)
            /\ Served(r) /\ s_req[r].sw.session # s_req[r].loaded
                  => UpdateCalls(r) # {}
            /\ s_req[r].pc = "handlers" /\ s_req[r].ops = 0
                  => (s_req[r].sw.change <=> CallsOf(r, {"GetInfo failed"}) # {}))
    /\ [][\A r \in SessionRequests :
            /\ s_last'.req = r => UpdateCalls(r) = {}
            /\ s_req[r].pc = "handlers" =>
                  s_req'[r].sw.change =
                      (s_req[r].sw.change \/ s_req'[r].sw.session # s_req[r].sw.session)]_vars

C23_Witness ==
    \E r \in SessionRequests :
        /\ Served(r)
        /\ CallsOf(r, {"GetInfo"}) # {}
        /\ s_req[r].loaded # EmptyMap
        /\ s_req[r].ops = MaxOps
        /\ s_req[r].sw.session = s_req[r].loaded
        /\ UpdateCalls(r) = {}

\* C24: two concurrent requests that carry the same session id and each
\* Store a different key do not lose an update: after both manageSession
\* calls have finished with their UpdateInfo accepted, the session held
\* by the service contains both keys, in every interleaving.
C24_NoLostUpdate ==
    \A r1, r2 \in SessionRequests : \A k1, k2 \in SessionKeys :
        /\ r1 # r2 /\ k1 # k2
        /\ s_req[r1].sessionId = s_req[r2].sessionId
        /\ Served(r1) /\ Served(r2)
        /\ CallsOf(r1, {"UpdateInfo"}) # {} /\ CallsOf(r2, {"UpdateInfo"}) # {}
        /\ s_req[r1].loaded = EmptyMap /\ s_req[r2].loaded = EmptyMap
        /\ DOMAIN s_req[r1].sw.session = {k1}
        /\ DOMAIN s_req[r2].sw.session = {k2}
        => {k1, k2} \subseteq DOMAIN s_service[s_req[r1].sessionId]

\* C25: getSessionId never generates a session for a request whose cookie
\* parses as an unsigned integer; for a missing or unparsable cookie it
\* calls Generate exactly once and sets the cookie only if Generate
\* succeeded; when Generate fails manageSession aborts with status 500
\* without calling GetInfo, the handlers or UpdateInfo.
C25_GenerateOnlyWithoutValidCookie ==
    \A r \in SessionRequests :
        s_req[r].pc # "start" =>
            LET cookie == s_req[r].cookie
                generated == CallsOf(r, {"Generate"})
            IN IF cookie.present /\ IsUint64(cookie.value)
               THEN /\ generated = {}
                    /\ s_req[r].setCookie = <<>>
                    /\ FormatUint(s_req[r].sessionId) = StripZeros(cookie.value)
                    /\ s_req[r].status # StatusInternalServerError
               ELSE /\ generated = {1}
                    /\ IF s_req[r].setCookie # <<>>
                       THEN /\ s_req[r].setCookie = FormatUint(s_req[r].sessionId)
                            /\ s_req[r].sessionId >= FirstGenerated
                            /\ s_req[r].status # StatusInternalServerError
                       ELSE /\ s_req[r].status = StatusInternalServerError
                            /\ s_req[r].pc = "done"
                            /\ s_req[r].calls = <<"Generate">>

C25_Witness ==
    \E r1, r2 \in SessionRequests :
        /\ s_req[r1].cookie = Cookie(<<"x">>)
        /\ s_req[r1].status = StatusInternalServerError
        /\ s_req[r2].cookie = Cookie(CookieText)
        /\ Served(r2)

(***************************************************************************)
(* Extracts of html                                                        *)
(***************************************************************************)
\* C26: the goroutine of sendChar eventually terminates and
\* FilterExtractHtml returns, for every input and every extractSize, the
\* extracts that are cut included: no goroutine stays blocked on the
\* channel.
C26_SendCharTerminates ==
    /\ (e_cons # "idle") ~> (e_cons = "returned")
    /\ (e_prod = "sending") ~> (e_prod = "closed")

\* the characters of text of a document
TextLength(doc) == Cardinality({i \in 1..Len(doc) : doc[i].kind = "text"})

\* the extract of a document: its tags as written, its text up to the
\* character that passes size, then "..." and the end tags of the elements
\* still open, the last opened first
RECURSIVE ExtractOf(_, _, _, _)
ExtractOf(doc, size, count, open) ==
    IF doc = <<>> THEN CloseTags(<<>>, open)
    ELSE LET item == Head(doc)
         IN IF item.kind = "text"
            THEN IF count + 1 > size
                 THEN item.name \o <<".", ".", ".">> \o CloseTags(<<>>, open)
                 ELSE item.name \o ExtractOf(Tail(doc), size, count + 1, open)
            ELSE IF item.kind = "start"
            THEN Render(item)
                 \o ExtractOf(Tail(doc), size, count,
                              IF item.name \in htmlVoidElement THEN open
                              ELSE Push(open, item.name))
            ELSE Render(item) \o ExtractOf(Tail(doc), size, count, Pop(open))

\* C27: for a well-formed html, the output of FilterExtractHtml is well
\* formed whether or not it was cut: every start tag is written with its
\* name and attributes at its position, the text copied is never
\* overwritten, every element still open is closed in reverse order; when
\* the text has at most extractSize characters the output is the input.
C27_ExtractWellFormed ==
    e_cons = "returned" =>
        \A doc \in Documents :
            RenderAll(doc) = e_html =>
                /\ e_out = ExtractOf(doc, e_size, 0, <<>>)
                /\ TextLength(doc) <= e_size => e_out = e_html

(***************************************************************************)
(* Posts and their comment threads                                         *)
(***************************************************************************)
\* the handler made this backend call and the backend carried it out
Succeeded(call) ==
    /\ \E i \in 1..Len(h_calls) : h_calls[i] = BlogCall(call)
    /\ h_req.fail.at # call

\* C28: saveHandler and deleteHandler keep posts and comment threads in
\* step: after either has returned, whatever backend call failed, the
\* post was created if and only if its comment thread was, and a deleted
\* post has no comment thread left.
C28_PostsAndThreadsInStep ==
    /\ h_handler = "blog/saveHandler" =>
          (Succeeded("CreatePost") <=> Succeeded("CreateCommentThread"))
    /\ h_handler = "blog/deleteHandler" =>
          (Succeeded("DeletePost") => Succeeded("DeleteCommentThread"))

(***************************************************************************)
(* Pagination                                                              *)
(***************************************************************************)
\* integer parameters that ParseUint accepts
PageAsked(query) == IsUint64(query) /\ StripZeros(query) # <<>>

\* C29: GetPagination returns a pageNumber of at least 1 (a missing, zero
\* or unparsable value gives 1), a page size equal to the pageSize query
\* or to defaultPageSize when that one is missing, zero or unparsable,
\* start = (pageNumber - 1) * pageSize and end = start + pageSize, with
\* start <= end for every query input, 64-bit wrap-around included;
\* InitPagination sets PreviousPageNumber exactly when pageNumber # 1 and
\* NextPageNumber exactly when end < total.
C29_PaginationBounds ==
    /\ c_fn = "GetPagination" =>
          LET pageSize == IF PageAsked(c_in.pageSize)
                          THEN DigitsU64(c_in.pageSize, U64(0))
                          ELSE c_in.defaultPageSize
          IN /\ ~U64Less(c_out.pageNumber, U64(1))
             /\ ~PageAsked(c_in.pageNumber) => c_out.pageNumber = U64(1)
             /\ PageAsked(c_in.pageNumber) =>
                   c_out.pageNumber = DigitsU64(c_in.pageNumber, U64(0))
             /\ c_out.start = U64Mul(U64Sub(c_out.pageNumber, U64(1)), pageSize)
             /\ c_out.end = U64Add(c_out.start, pageSize)
             /\ ~U64Less(c_out.end, c_out.start)
    /\ c_fn = "InitPagination" =>
          /\ "PreviousPageNumber" \in DOMAIN c_out <=> c_in.pageNumber # U64(1)
          /\ "NextPageNumber" \in DOMAIN c_out <=> U64Less(c_in.end, c_in.total)

====
